---------------------------- MODULE Spec2Model ----------------------------
(***************************************************************************)
(* RadarProcessor: the radar processing pipeline                           *)
(* (src/radar_core/processing_pipeline.cpp) and the radar odometry         *)
(* estimator it feeds (src/radar_core/odometry_estimator.cpp).             *)
(*                                                                         *)
(* Representation of the source's quantities:                              *)
(*  - angles are whole quarter turns (1 = pi/2), so cos and sin are the    *)
(*    exact values -1, 0, 1 of Cos4 and Sin4;                              *)
(*  - range rates, velocities, positions and extents are whole m/s and m   *)
(*    (track box tests are done on doubled coordinates, which keeps the    *)
(*    0.5*a*dt^2 term and the half extents exact);                         *)
(*  - one unit of a timestamp is 10^6 microseconds, so that                *)
(*    microsecondsToSeconds of a difference is that difference;            *)
(*  - stationaryProbability and movingVotes are in thousandths.            *)
(***************************************************************************)
EXTENDS Integers, Sequences, FiniteSets, TLC

(***************************************************************************)
(* Bounds of the model.                                                    *)
(***************************************************************************)
\* timestamps offered to the pipeline are 0..MaxTime
MaxTime == 1
\* number of API calls explored in one behaviour
MaxCalls == 4
\* returns per corner frame (kCornerReturnCount in the source is 64);
\* a front frame carries twice as many (kFrontReturnCount = 2 * 64)
kCornerReturnCount == 2
\* track slots per track frame (kTrackCount in the source is 96)
kTrackCount == 2

(***************************************************************************)
(* Program constants.                                                      *)
(***************************************************************************)
\* utility::SensorIndex
FrontLeft == 0
FrontShort == 4
FrontLong == 5
Count == 6
\* utility::TrackStatus
Invalid == 0
Updated == 5
\* utility::DetectionFlag
Valid == 1
SuperResolution == 2
\* ProcessingSettings
nSigma == 3
rangeRateSigma == 3
boundingBoxScale10 == 11
\* OdometrySettings as the odometry test sets them
maxIterations == 10
minInliers == 2
\* clamp of TrackState::movingVotes, in thousandths
VotesLimit == 100000
\* one, in thousandths
ProbOne == 1000
kDefaultSegmentCount == 72
\* std::numeric_limits<uint64_t>::max(): the largest timestamp.  The timestamps of
\* the frames of the model are far below it.
Uint64Max == 1000000

kFrontReturnCount == 2 * kCornerReturnCount

Abs(x) == IF x < 0 THEN -x ELSE x
Max(a, b) == IF a < b THEN b ELSE a
Min(a, b) == IF b < a THEN b ELSE a

\* std::cos and std::sin on whole quarter turns
Cos4(q) == CASE q % 4 = 0 -> 1 [] q % 4 = 1 -> 0 [] q % 4 = 2 -> -1 [] OTHER -> 0
Sin4(q) == CASE q % 4 = 0 -> 0 [] q % 4 = 1 -> 1 [] q % 4 = 2 -> 0 [] OTHER -> -1

\* a - b on std::uint64_t: the difference modulo 2^64
Sub64(a, b) == (a - b) % (Uint64Max + 1)

\* utility::clamp: std::min(maxValue, std::max(minValue, value))
clamp(value, minValue, maxValue) == Min(maxValue, Max(minValue, value))

\* division rounded to the nearest representable value (d > 0)
RoundDiv(n, d) == (2 * n + d) \div (2 * d)

(***************************************************************************)
(* Vehicle parameters: the calibration bundle of the pipeline test         *)
(* (makeVehicleParameters), the same for all six sensors.                  *)
(***************************************************************************)
RadarCalibration ==
    [vcs |-> [longitudinal_m |-> 0, lateral_m |-> 0, orientation |-> 0],
     iso |-> [longitudinal_m |-> 1, lateral_m |-> 0, orientation |-> 0],
     polarity |-> 1,
     rangeRateAccuracy100 |-> 150]

VehicleParameters ==
    [cornerHardwareDelay |-> 0,
     frontCenterHardwareDelay |-> 0,
     radarCalibrations |-> [s \in 0..(Count - 1) |-> RadarCalibration]]

\* m_parameters == nullptr
NullParameters == [null |-> TRUE]

(***************************************************************************)
(* Default-constructed values.                                             *)
(***************************************************************************)
\* utility::VehicleMotionState{}; the variances are in tenths
DefaultMotionState ==
    [vLon_mps |-> 0, vLat_mps |-> 0, yawRate_rps |-> 0,
     vLonVariance |-> 1, vLatVariance |-> 1, yawRateVariance |-> 1]

\* utility::OdometryEstimate{}; covariance0 is covariance[0] = covariance[4]
\* as a fraction <<numerator, denominator>>
DefaultOdometryEstimate ==
    [timestamp_us |-> 0, vLon_mps |-> 0, vLat_mps |-> 0, yawRate_rps |-> 0,
     covariance0 |-> <<0, 1>>, covariance8 |-> 0, inlierCount |-> 0, valid |-> FALSE]

\* RadarProcessingPipeline::SensorUpdateState{}
DefaultSensorUpdateState ==
    [initialized |-> FALSE, timestamp_us |-> 0, numConsecutiveInvalid |-> 0]

\* utility::RawDetectionsHeader{} with the given timestamp
Header(t) == [timestamp_us |-> t]

\* utility::EnhancedDetections{}
EmptyDetections == [header |-> Header(0), detections |-> <<>>]

\* utility::EnhancedTracks{}
EmptyTracks == [timestamp_us |-> 0, tracks |-> <<>>]

\* utility::EnhancedDetection{}
DefaultEnhancedDetection ==
    [range_m |-> 0, rangeRate_ms |-> 0, rangeRateRaw_ms |-> 0, azimuthRaw |-> 0,
     azimuth |-> 0, amplitude_dBsm |-> 0, longitudinalOffset_m |-> 0,
     lateralOffset_m |-> 0, motionStatus |-> -1, flags |-> 0, fusedTrackIndex |-> -1,
     isStationary |-> 0, isMoveable |-> 0, isStatic |-> 0, stationaryProbability |-> 0]

(***************************************************************************)
(* The state of a RadarProcessingPipeline and of its caller.               *)
(***************************************************************************)
VARIABLES
    m_parameters,              \* NullParameters or the borrowed bundle
    m_sensorStates,            \* [0..Count-1 -> SensorUpdateState]
    m_tracks,                  \* sequence of TrackState
    m_tracksTimestamp_us,
    m_motionState,
    m_hasExternalMotionState,
    m_odometry,                \* RadarOdometryEstimator::m_lastEstimate
    m_lastOdometry,
    output,                    \* the caller's container passed as output / outputShort
    outputLong,                \* the caller's container passed as outputLong
    tracksOutput,              \* the caller's container passed to processTrackFusion
    call,                      \* the call just made: operation, arguments, result
    ncalls,                    \* number of calls made
    m_settings,                \* FusedRadarMapping::m_settings
    m_gridSize,                \* FusedRadarMapping::m_gridSize
    m_logOdds,                 \* FusedRadarMapping::m_logOdds, [0..N*N-1 -> log-odds]
    m_vehicleContour,          \* RadarVirtualSensorMapping: the members of the ring
    m_vehicleCenter,
    m_segmentCount,
    m_segmentDirections,
    m_segmentStartDist,
    m_segmentEndDist,
    m_ready,
    settings_inputFiles,       \* RadarPlayback: Settings::inputFiles and the files they name
    impl_initialized,          \* m_impl->initialized
    impl_streams,              \* m_impl->streams
    impl_pipeline,             \* m_impl->pipeline: the calls made to it, in order
    frame,                     \* the caller's RadarFrame passed to readNextFrame
    m_dataDirectory,           \* OfflineRadarDataReader: the files found under the roots
    m_files,                   \* the configured file names
    m_sensors,                 \* one TextRadarSensor per file found
    m_frames,                  \* one SourceFrame per file found
    m_lastFrameSources,
    destination,               \* the caller's point cloud passed to readNextScan
    scanTimestampUs            \* the caller's timestamp passed to readNextScan

pipeline == <<m_parameters, m_sensorStates, m_tracks, m_tracksTimestamp_us,
              m_motionState, m_hasExternalMotionState, m_odometry, m_lastOdometry>>
outputs == <<output, outputLong, tracksOutput>>
grid == <<m_settings, m_gridSize, m_logOdds>>
virtualRing == <<m_vehicleContour, m_vehicleCenter, m_segmentCount, m_segmentDirections,
                 m_segmentStartDist, m_segmentEndDist, m_ready>>
maps == <<grid, virtualRing>>
playback == <<settings_inputFiles, impl_initialized, impl_streams, impl_pipeline, frame>>
offlineReader == <<m_dataDirectory, m_files, m_sensors, m_frames, m_lastFrameSources,
                   destination, scanTimestampUs>>
readers == <<playback, offlineReader>>
vars == <<ncalls, pipeline, outputs, call, maps, readers>>

Times == 0..MaxTime

(***************************************************************************)
(* Raw -> enhanced mapping (mapCornerDetections, mapFrontDetections).      *)
(***************************************************************************)
\* utility::packDetectionFlags: a sum of shifted bytes, truncated to a byte
packDetectionFlags(radarValid, superResolution, nearTarget, hostVehicleClutter, multibounce) ==
    (radarValid + superResolution * 2 + nearTarget * 4 + hostVehicleClutter * 8
        + multibounce * 16) % 256

\* (det.flags & validMask) != 0 with validMask = Valid | SuperResolution
HasValidMask(flags) == flags % (2 * SuperResolution) # 0

\* std::vector::resize(n): keeps the first n elements, appends default ones
Resize(dets, n) ==
    [i \in 1..n |-> IF i <= Len(dets) THEN dets[i] ELSE DefaultEnhancedDetection]

\* the body of the mapping loops: the fields copied from raw slot r into det
MapReturn(det, r) ==
    [det EXCEPT !.range_m = r.range_m,
                !.rangeRate_ms = r.rangeRate_ms,
                !.rangeRateRaw_ms = r.rangeRateRaw_ms,
                !.azimuthRaw = r.azimuthRaw,
                !.azimuth = r.azimuth,
                !.amplitude_dBsm = r.amplitude_dBsm,
                !.longitudinalOffset_m = r.longitudinalOffset_m,
                !.lateralOffset_m = r.lateralOffset_m,
                !.motionStatus = r.motionStatus,
                !.flags = packDetectionFlags(r.radarValidReturn, r.superResolutionDetection,
                                             r.nearTargetDetection, r.hostVehicleClutter,
                                             r.multibounceDetection)]

\* mapCornerDetections(input, output): the container after the call
mapCornerDetections(input, out) ==
    [header |-> input.header,
     detections |-> [i \in 1..kCornerReturnCount |->
                        MapReturn(Resize(out.detections, kCornerReturnCount)[i],
                                  input.returns[i])]]

\* mapFrontDetections(input, outputShort, outputLong): <<short, long>>
mapFrontDetectionsShortTwice(input, outShort, outLong) ==
    << [header |-> input.header,
        detections |-> [i \in 1..kCornerReturnCount |->
                           MapReturn(Resize(outShort.detections, kCornerReturnCount)[i],
                                     input.returns[i])]],
       [header |-> input.header,
        detections |-> [i \in 1..kCornerReturnCount |->
                           MapReturn(Resize(outLong.detections, kCornerReturnCount)[i],
                                     input.returns[i])]] >>

mapFrontDetections(input, outShort, outLong) ==
    << [header |-> input.header,
        detections |-> [i \in 1..kCornerReturnCount |->
                           MapReturn(Resize(outShort.detections, kCornerReturnCount)[i],
                                     input.returns[i])]],
       [header |-> input.header,
        detections |-> [i \in 1..kCornerReturnCount |->
                           MapReturn(Resize(outLong.detections, kCornerReturnCount)[i],
                                     input.returns[kCornerReturnCount + i])]] >>

(***************************************************************************)
(* Stationarity classification (classifyDetections).                       *)
(***************************************************************************)
\* detectionAngleRad
detectionAngleRad(det, calibration) ==
    (-det.azimuthRaw * calibration.polarity) + calibration.iso.orientation

\* yawCompensation
yawCompensation(state, calibration, detAngle) ==
    state.yawRate_rps *
        ((calibration.iso.longitudinal_m * Sin4(detAngle)) -
         (calibration.iso.lateral_m * Cos4(detAngle)))

\* sqrt(max(rangeRateVar, 1e-4)) with rangeRateVar = squared(max(0.01, accuracy / 3)),
\* in hundredths of m/s
SigmaRangeRate100(calibration) == Max(1, Max(1, calibration.rangeRateAccuracy100 \div 3))

\* stationaryProbabilityFromDistance, clamped to [0, 1]: 1 - erf(mDist / sqrt 2) in
\* thousandths, tabulated on the whole part of mDist = num / den
stationaryProbabilityFromDistance(num, den) ==
    LET m == num \div den
    IN  clamp(CASE m = 0 -> 1000 [] m = 1 -> 317 [] m = 2 -> 46 [] m = 3 -> 3 [] OTHER -> 0,
              0, ProbOne)

\* the body of the classification loop
ClassifyOne(det, calibration, motion) ==
    LET detAngle == detectionAngleRad(det, calibration)
        yawTerm == yawCompensation(motion, calibration, detAngle)
        compensatedRangeRate == det.rangeRate_ms + yawTerm
        predictedRangeRate ==
            -(motion.vLon_mps * Cos4(detAngle) + motion.vLat_mps * Sin4(detAngle))
        mDistNum == 100 * Abs(compensatedRangeRate - predictedRangeRate)
        mDistDen == SigmaRangeRate100(calibration)
        stationary == IF mDistNum <= nSigma * mDistDen THEN 1 ELSE 0
    IN  [det EXCEPT !.fusedTrackIndex = -1,
                    !.isMoveable = 0,
                    !.isStationary = stationary,
                    !.stationaryProbability = stationaryProbabilityFromDistance(mDistNum, mDistDen),
                    !.isStatic = stationary]

\* classifyDetections(sensor, t, detections): the container after the call
classifyDetectionsAtRest(sensor, detections, parameters, motion) ==
    [detections EXCEPT !.detections =
        [i \in 1..Len(detections.detections) |->
            ClassifyOne(detections.detections[i],
                        parameters.radarCalibrations[sensor], DefaultMotionState)]]

classifyDetections(sensor, detections, parameters, motion) ==
    [detections EXCEPT !.detections =
        [i \in 1..Len(detections.detections) |->
            ClassifyOne(detections.detections[i],
                        parameters.radarCalibrations[sensor], motion)]]

(***************************************************************************)
(* Track association (associateDetections).                                *)
(***************************************************************************)
\* detectionPositionVcs
detectionPositionVcs(det, calibration) ==
    LET zero == det.longitudinalOffset_m = 0 /\ det.lateralOffset_m = 0 /\ det.range_m > 0
        lon1 == IF zero THEN det.range_m * Cos4(det.azimuth) ELSE det.longitudinalOffset_m
        lat1 == IF zero THEN det.range_m * Sin4(det.azimuth) ELSE det.lateralOffset_m
        detAngle == (-det.azimuthRaw * calibration.polarity) + calibration.vcs.orientation
        again == lon1 = 0 /\ lat1 = 0 /\ det.range_m > 0
        lon2 == IF again THEN det.range_m * Cos4(detAngle) ELSE lon1
        lat2 == IF again THEN det.range_m * Sin4(detAngle) ELSE lat1
    IN  <<lon2 + calibration.vcs.longitudinal_m, lat2 + calibration.vcs.lateral_m>>

\* the predicted box of a track after dt seconds; the centre is doubled
PredictedBox(track, dt) ==
    [center2 |-> <<2 * track.position[1] + 2 * track.velocity[1] * dt
                       + track.acceleration[1] * dt * dt,
                   2 * track.position[2] + 2 * track.velocity[2] * dt
                       + track.acceleration[2] * dt * dt>>,
     length |-> track.length,
     width |-> track.width,
     heading |-> track.heading + track.headingRate * dt]

\* OrientedBox::contains with halfLength = max(length, 0.1) * 0.5 * boundingBoxScale
contains(box, point) ==
    LET dx2 == 2 * point[1] - box.center2[1]
        dy2 == 2 * point[2] - box.center2[2]
        cosH == Cos4(-box.heading)
        sinH == Sin4(-box.heading)
        localX2 == dx2 * cosH - dy2 * sinH
        localY2 == dx2 * sinH + dy2 * cosH
    IN  /\ 100 * Abs(localX2) <= Max(10 * box.length, 1) * boundingBoxScale10
        /\ 100 * Abs(localY2) <= Max(10 * box.width, 1) * boundingBoxScale10

\* |det.rangeRate_ms - predictedRangeRate| for track i
AssociationResidual(det, calibration, motion, track) ==
    LET detAngle == detectionAngleRad(det, calibration)
        rangeRateModelX == -Cos4(detAngle)
        rangeRateModelY == -Sin4(detAngle)
        relX == motion.vLon_mps - track.velocity[1]
        relY == motion.vLat_mps - track.velocity[2]
    IN  Abs(det.rangeRate_ms - (relX * rangeRateModelX + relY * rangeRateModelY))

\* the inner loop over the boxes: the index (from 1) of the best track, 0 if none
BestIndex(det, calibration, motion, tracks, boxes) ==
    LET detPos == detectionPositionVcs(det, calibration)
        sigma == SigmaRangeRate100(calibration)
        res(i) == AssociationResidual(det, calibration, motion, tracks[i])
        candidates == {i \in 1..Len(boxes) :
                          /\ contains(boxes[i], detPos)
                          /\ 100 * res(i) <= rangeRateSigma * sigma}
    IN  IF candidates = {} THEN 0
        ELSE CHOOSE i \in candidates :
                \A j \in candidates : res(i) < res(j) \/ (res(i) = res(j) /\ i <= j)

\* movingVotes of a track that is not moveable, after the vote of det
VotesAfterUnclamped(track, det) ==
    track.movingVotes + (IF det.isStationary # 0 THEN -det.stationaryProbability
                         ELSE ProbOne - det.stationaryProbability)

VotesAfter(track, det) ==
    LET vote == IF det.isStationary # 0 THEN -det.stationaryProbability
                ELSE ProbOne - det.stationaryProbability
    IN  clamp(track.movingVotes + vote, -VotesLimit, VotesLimit)

\* movingVotes of the associated track after the detection: a track flagged moveable
\* passes its flag through and takes no vote
VotesOfVotingAlways(track, det) == VotesAfter(track, det)

VotesOf(track, det) ==
    IF track.isMoveable THEN track.movingVotes ELSE VotesAfter(track, det)

\* the detection after a successful association with the track at index best (from 1)
AssociatedDetectionStaleStatic(det, best, moveable) ==
    [det EXCEPT !.isMoveable = moveable,
                !.fusedTrackIndex = ((best - 1 + 128) % 256) - 128]

AssociatedDetectionFromOne(det, best, moveable) ==
    [det EXCEPT !.isMoveable = moveable,
                !.isStatic = IF det.isStationary # 0 /\ moveable = 0 THEN 1 ELSE 0,
                !.fusedTrackIndex = ((best + 128) % 256) - 128]

AssociatedDetection(det, best, moveable) ==
    [det EXCEPT !.isMoveable = moveable,
                !.isStatic = IF det.isStationary # 0 /\ moveable = 0 THEN 1 ELSE 0,
                \* static_cast<std::int8_t>(bestIndex)
                !.fusedTrackIndex = ((best - 1 + 128) % 256) - 128]

\* the loop over the detections, from detection k on: <<detections, tracks>>
RECURSIVE AssociateFrom(_, _, _, _, _, _)
AssociateFrom(k, dets, tracks, boxes, calibration, motion) ==
    IF k > Len(dets) THEN <<dets, tracks>>
    ELSE IF ~HasValidMask(dets[k].flags)
         THEN AssociateFrom(k + 1, dets, tracks, boxes, calibration, motion)
    ELSE LET best == BestIndex(dets[k], calibration, motion, tracks, boxes)
         IN  IF best = 0
             THEN AssociateFrom(k + 1, dets, tracks, boxes, calibration, motion)
             ELSE LET track == tracks[best]
                      votes == VotesOf(track, dets[k])
                      moveable == IF track.isMoveable THEN 1
                                  ELSE IF votes > 0 THEN 1 ELSE 0
                  IN  AssociateFrom(k + 1,
                                    [dets EXCEPT ![k] = AssociatedDetection(@, best, moveable)],
                                    [tracks EXCEPT ![best].movingVotes = votes],
                                    boxes, calibration, motion)

\* timestamp_us > m_tracksTimestamp_us ? timestamp_us - m_tracksTimestamp_us : 0U
PredictionInterval(t, tracksTimestamp) ==
    IF t > tracksTimestamp THEN Sub64(t, tracksTimestamp) ELSE 0

\* associateDetections(sensor, t, detections): <<container, m_tracks>> after the call
associateDetections(sensor, t, detections, parameters, motion, tracks, tracksTimestamp) ==
    IF tracks = <<>> THEN <<detections, tracks>>
    ELSE LET dt == PredictionInterval(t, tracksTimestamp)
             boxes == [i \in 1..Len(tracks) |-> PredictedBox(tracks[i], dt)]
             r == AssociateFrom(1, detections.detections, tracks, boxes,
                                parameters.radarCalibrations[sensor], motion)
         IN  <<[detections EXCEPT !.detections = r[1]], r[2]>>

(***************************************************************************)
(* Radar odometry estimator (RadarOdometryEstimator::processDetections).   *)
(***************************************************************************)
\* the usable detections as Sample{cosAngle, sinAngle, rangeRate}; every range
\* rate of the model is finite
Samples(calibration, detections) ==
    LET usable == SelectSeq(detections.detections, LAMBDA d : HasValidMask(d.flags))
    IN  [i \in 1..Len(usable) |->
            LET angle == (-usable[i].azimuthRaw * calibration.polarity)
                             + calibration.iso.orientation
            IN  [cosAngle |-> Cos4(angle), sinAngle |-> Sin4(angle),
                 rangeRate |-> usable[i].rangeRate_ms]]

\* predictedRangeRate
predictedRangeRate(sample, vLon, vLat) ==
    -(vLon * sample.cosAngle + vLat * sample.sinAngle)

\* the determinant of solvePair; the pair is rejected when |det| < 1e-4
PairDet(a, b) == (-a.cosAngle) * (-b.sinAngle) - (-a.sinAngle) * (-b.cosAngle)

\* solvePair: <<vLon, vLat>> of a pair that is not rejected (det is -1 or 1)
solvePair(a, b) ==
    LET a11 == -a.cosAngle
        a12 == -a.sinAngle
        a21 == -b.cosAngle
        a22 == -b.sinAngle
        det == PairDet(a, b)
    IN  <<(a.rangeRate * a22 - a12 * b.rangeRate) \div det,
          (a11 * b.rangeRate - a.rangeRate * a21) \div det>>

\* residual <= threshold, threshold = max(0.05, inlierThreshold_mps) < 1, on whole
\* residuals
IsInlier(sample, vLon, vLat) == Abs(predictedRangeRate(sample, vLon, vLat) - sample.rangeRate) = 0

InlierCount(samples, vLon, vLat) ==
    Cardinality({k \in 1..Len(samples) : IsInlier(samples[k], vLon, vLat)})

\* the first half of a RANSAC iteration on the pair (i, j) the generator drew:
\* solvePair and the inlier count of its solution
PairTrial(samples, i, j) ==
    IF PairDet(samples[i], samples[j]) = 0
    THEN [solved |-> FALSE, vLon |-> 0, vLat |-> 0, inliers |-> 0]
    ELSE LET v == solvePair(samples[i], samples[j])
         IN  [solved |-> TRUE, vLon |-> v[1], vLat |-> v[2],
              inliers |-> InlierCount(samples, v[1], v[2])]

\* the second half: continue on a rejected pair, keep the best
RansacStep(best, trial) ==
    IF trial.solved /\ trial.inliers > best.bestInliers
    THEN [bestVLon |-> trial.vLon, bestVLat |-> trial.vLat, bestInliers |-> trial.inliers]
    ELSE best

\* The pairs come from std::mt19937(42) through std::uniform_int_distribution, whose
\* mapping is left to the implementation: every draw of two distinct indices is allowed.
Trials(samples) ==
    {PairTrial(samples, p[1], p[2]) :
        p \in {q \in (1..Len(samples)) \X (1..Len(samples)) : q[1] # q[2]}}

\* the RANSAC loop: what (bestVLon, bestVLat, bestInliers) can be after n iterations
RECURSIVE RansacAfter(_, _)
RansacAfter(n, trials) ==
    IF n = 0 THEN {[bestVLon |-> 0, bestVLat |-> 0, bestInliers |-> 0]}
    ELSE {RansacStep(b, t) : b \in RansacAfter(n - 1, trials), t \in trials}

\* A.colPivHouseholderQr().solve(b) for A = (-cos, -sin), b = rangeRate: the least
\* squares solution, the basic one (free coefficient 0) when A has rank 1
LeastSquares(fit) ==
    LET idx == 1..Len(fit)
        RECURSIVE Sum(_, _)
        Sum(f(_), S) == IF S = {} THEN 0
                        ELSE LET k == CHOOSE x \in S : TRUE IN f(k) + Sum(f, S \ {k})
        cc(k) == fit[k].cosAngle * fit[k].cosAngle
        ss(k) == fit[k].sinAngle * fit[k].sinAngle
        cs(k) == fit[k].cosAngle * fit[k].sinAngle
        bc(k) == -fit[k].cosAngle * fit[k].rangeRate
        bs(k) == -fit[k].sinAngle * fit[k].rangeRate
        Scc == Sum(cc, idx)
        Sss == Sum(ss, idx)
        Scs == Sum(cs, idx)
        Bc == Sum(bc, idx)
        Bs == Sum(bs, idx)
        det == Scc * Sss - Scs * Scs
        Div(n, d) == IF d > 0 THEN RoundDiv(n, d) ELSE RoundDiv(-n, -d)
    IN  IF det # 0
        THEN <<Div(Bc * Sss - Scs * Bs, det), Div(Scc * Bs - Scs * Bc, det)>>
        ELSE IF Scc >= Sss /\ Scc > 0 THEN <<Div(Bc, Scc), 0>>
        ELSE IF Sss > 0 THEN <<0, Div(Bs, Sss)>>
        ELSE <<0, 0>>

\* the part of processDetections after the RANSAC loop, for one outcome of the loop:
\* [ret, estimate], the return value and m_lastEstimate after the call
FitEstimate(samples, best, timestamp, lastEstimate) ==
    LET useInliers == best.bestInliers >= minInliers
        inlierSamples == SelectSeq(samples,
                                   LAMBDA x : IsInlier(x, best.bestVLon, best.bestVLat))
        fitSamples == IF useInliers THEN inlierSamples ELSE samples
        solution == LeastSquares(fitSamples)
    IN  IF Len(fitSamples) < 2
        THEN [ret |-> FALSE, estimate |-> lastEstimate]
        ELSE [ret |-> useInliers,
              estimate |->
                 [timestamp_us |-> timestamp,
                  vLon_mps |-> solution[1],
                  vLat_mps |-> solution[2],
                  yawRate_rps |-> 0,
                  covariance0 |-> IF useInliers THEN <<1, Len(fitSamples)>> ELSE <<1, 1>>,
                  covariance8 |-> 1,
                  inlierCount |-> IF useInliers THEN Len(fitSamples) ELSE best.bestInliers,
                  valid |-> useInliers]]

\* processDetections(calibration, detections): the possible [ret, estimate]
processDetections(calibration, detections, lastEstimate) ==
    LET samples == Samples(calibration, detections)
    IN  IF Len(samples) < 2
        THEN {[ret |-> FALSE, estimate |-> lastEstimate]}
        ELSE {FitEstimate(samples, best, detections.header.timestamp_us, lastEstimate) :
                 best \in RansacAfter(Max(1, maxIterations), Trials(samples))}

(***************************************************************************)
(* RadarProcessingPipeline.                                                *)
(***************************************************************************)
\* updateSensorStatus(sensor, t): [live, states], the return value and
\* m_sensorStates after the call
updateSensorStatusNotStrict(states, sensor, t) ==
    IF ~states[sensor].initialized
    THEN [live |-> TRUE,
          states |-> [states EXCEPT ![sensor] =
                         [initialized |-> TRUE, timestamp_us |-> t,
                          numConsecutiveInvalid |-> 0]]]
    ELSE IF t >= states[sensor].timestamp_us
    THEN [live |-> TRUE,
          states |-> [states EXCEPT ![sensor].timestamp_us = t,
                                    ![sensor].numConsecutiveInvalid = 0]]
    ELSE [live |-> FALSE,
          states |-> [states EXCEPT ![sensor].numConsecutiveInvalid = @ + 1]]

updateSensorStatus(states, sensor, t) ==
    IF ~states[sensor].initialized
    THEN [live |-> TRUE,
          states |-> [states EXCEPT ![sensor] =
                         [initialized |-> TRUE, timestamp_us |-> t,
                          numConsecutiveInvalid |-> 0]]]
    ELSE IF t > states[sensor].timestamp_us
    THEN [live |-> TRUE,
          states |-> [states EXCEPT ![sensor].timestamp_us = t,
                                    ![sensor].numConsecutiveInvalid = 0]]
    ELSE [live |-> FALSE,
          \* a 32-bit counter; a behaviour of the model makes at most MaxCalls calls
          states |-> [states EXCEPT ![sensor].numConsecutiveInvalid = @ + 1]]

\* timestamp_us > delayUs ? timestamp_us - delayUs : 0
ObservationTimeUnguarded(t, delay) == Sub64(t, delay)

ObservationTime(t, delay) == IF t > delay THEN Sub64(t, delay) ELSE 0

\* the odometry feedback: the motion state after a successful estimate
FeedBackLonTwice(motion, estimate) ==
    [motion EXCEPT !.vLon_mps = estimate.vLon_mps,
                   !.vLat_mps = estimate.vLon_mps,
                   !.yawRate_rps = estimate.yawRate_rps]

FeedBack(motion, estimate) ==
    [motion EXCEPT !.vLon_mps = estimate.vLon_mps,
                   !.vLat_mps = estimate.vLat_mps,
                   !.yawRate_rps = estimate.yawRate_rps]

(***************************************************************************)
(* FusedRadarMapping: the occupancy grid.  Lengths are in decimetres,      *)
(* log-odds and probabilities in thousandths.  A direction is the vector   *)
(* (sin azimuth, cos azimuth) in fifths.                                   *)
(***************************************************************************)
\* Settings: the settings of the repository's mapping tests (one-metre
\* cells, no plausibility scaling) on a three-metre map, at the default
\* increments and additive probability, with a two-metre minimum range.  The
\* free-space half angle is carried as (sin, cos) in fifths and the angle
\* accuracies as their tangents in thousandths.
Settings ==
    [cellSize |-> 10, hitIncrement |-> 500, missDecrement |-> 100,
     maxLogOdds |-> 1000, minLogOdds |-> -1000, occupiedThreshold |-> 50,
     mapRadius |-> 30, radarModel |-> "Gaussian", enableOccupied |-> TRUE,
     enableFreespace |-> FALSE, alwaysMapDynamicDetections |-> FALSE,
     enablePlausibilityScaling |-> FALSE, maxAdditiveProbability |-> 275,
     maxFreeSpaceRange_m |-> 1000, minRange_m |-> 20, minPlausibility |-> 0,
     freespaceAngleAccuracy |-> <<3, 4>>, freespaceRangeSigmaFactor |-> 4,
     srrRangeAccuracy_m |-> 0, srrAngleAccuracy |-> 2,
     mrrRangeAccuracy_m |-> 2, mrrAngleAccuracy |-> 9]

\* static_cast<int>(std::floor(a / b)) and std::ceil for b > 0
FloorDiv(a, b) == a \div b
CeilDiv(a, b) == -((-a) \div b)

\* glm::length, rounded up to the next whole decimetre
length(v) ==
    LET q == v[1] * v[1] + v[2] * v[2]
    IN  CHOOSE n \in 0..(Abs(v[1]) + Abs(v[2])) : n * n >= q /\ (n = 0 \/ (n - 1) * (n - 1) < q)

\* initializeGrid(): the edge length of the grid for the settings
gridSizeOf(settings) == Max(3, CeilDiv(settings.mapRadius * 2, settings.cellSize))

\* initializeGrid(): m_logOdds.assign(m_gridSize * m_gridSize, 0)
initializeGrid(settings) ==
    [k \in 0..(gridSizeOf(settings) * gridSizeOf(settings) - 1) |-> 0]

\* toIndex(value) = value / cellSize + m_gridCenter, with
\* m_gridCenter = (m_gridSize - 1) / 2: its floor and its ceiling
toIndexFloor(value, settings, gridSize) ==
    FloorDiv(2 * value + (gridSize - 1) * settings.cellSize, 2 * settings.cellSize)
toIndexCeil(value, settings, gridSize) ==
    CeilDiv(2 * value + (gridSize - 1) * settings.cellSize, 2 * settings.cellSize)

\* worldToCell(position, ix, iy)
worldToCell(position, settings, gridSize) ==
    LET ix == toIndexFloor(position[1], settings, gridSize)
        iy == toIndexFloor(position[2], settings, gridSize)
    IN  [ok |-> ix >= 0 /\ ix < gridSize /\ iy >= 0 /\ iy < gridSize, ix |-> ix, iy |-> iy]

\* cellCenter(ix, iy): one coordinate, (i - m_gridCenter) * cellSize + cellSize / 2
cellCenter(i, settings, gridSize) ==
    ((2 * i - (gridSize - 1)) * settings.cellSize + settings.cellSize) \div 2

\* updateCell(ix, iy, delta): the new value of the cell
updateCell(current, delta, settings) ==
    clamp(current + delta, settings.minLogOdds, settings.maxLogOdds)

\* computePlausibility(range, azimuth, amplitude): 1 when scaling is off;
\* otherwise the clamped combination of the three sigmoids, which the point
\* carries as its plausibility
computePlausibility(point, settings) ==
    IF ~settings.enablePlausibilityScaling THEN ProbOne
    ELSE clamp(point.plausibility, 0, ProbOne)

\* isMrrSensorIndex(sensorIndex)
isMrrSensorIndex(sensorIndex) == sensorIndex = 4 \/ sensorIndex = 5

\* computeSensorAccuracies(point, rangeAccuracy, angleAccuracy)
computeSensorAccuracies(point, settings) ==
    IF isMrrSensorIndex(point.sensorIndex)
    THEN [range |-> settings.mrrRangeAccuracy_m, angle |-> settings.mrrAngleAccuracy]
    ELSE [range |-> settings.srrRangeAccuracy_m, angle |-> settings.srrAngleAccuracy]

\* log(p / (1 - p)) for p = clamp(0.5 + scale * exp(-x), 0.001, 0.999), for
\* the scale 0.275 of the default maxAdditiveProbability at plausibility 1;
\* another scale is taken to first order in scale
gaussianLogOdds(scale, x) ==
    LET table == <<1237, 410, 149, 55, 20, 7, 3, 1>>
        atDefault == IF x < Len(table) THEN table[x + 1] ELSE 0
    IN  IF scale = 275 THEN atDefault ELSE RoundDiv(atDefault * scale, 275)

\* addHit(detectionPosition, plausibility)
addHit(logOdds, detectionPosition, plausibility, settings, gridSize) ==
    LET cell == worldToCell(detectionPosition, settings, gridSize)
    IN  IF ~cell.ok THEN logOdds
        ELSE [logOdds EXCEPT ![cell.iy * gridSize + cell.ix] =
                 updateCell(@, RoundDiv(settings.hitIncrement * plausibility, ProbOne), settings)]

\* addGaussian(detectionPosition, relativeVector, range, azimuth, ...):
\* forward is the direction of the relative vector, or of the azimuth when
\* the relative vector is shorter than a millimetre
addGaussian(logOdds, detectionPosition, forward, range_m, accuracy, plausibility, settings, gridSize) ==
    IF settings.maxAdditiveProbability <= 0 THEN logOdds
    ELSE
    LET half == settings.cellSize \div 2
        sigmaLat == Max(RoundDiv(range_m * accuracy.angle, 1000), half)
        sigmaLon == Max(accuracy.range, half)
        maxSigma == Max(sigmaLat, sigmaLon)
        radius == Max(settings.cellSize, 3 * maxSigma)
        scale == RoundDiv(settings.maxAdditiveProbability * plausibility, ProbOne)
        right == <<forward[2], -forward[1]>>
        last == gridSize - 1
        ixMin == clamp(toIndexFloor(detectionPosition[1] - radius, settings, gridSize), 0, last)
        ixMax == clamp(toIndexCeil(detectionPosition[1] + radius, settings, gridSize), 0, last)
        iyMin == clamp(toIndexFloor(detectionPosition[2] - radius, settings, gridSize), 0, last)
        iyMax == clamp(toIndexCeil(detectionPosition[2] + radius, settings, gridSize), 0, last)
        exponent(ix, iy) ==
            LET dx == cellCenter(ix, settings, gridSize) - detectionPosition[1]
                dy == cellCenter(iy, settings, gridSize) - detectionPosition[2]
                longitudinal == dx * forward[1] + dy * forward[2]
                lateral == dx * right[1] + dy * right[2]
            IN  RoundDiv(longitudinal * longitudinal * sigmaLat * sigmaLat
                             + lateral * lateral * sigmaLon * sigmaLon,
                         50 * sigmaLon * sigmaLon * sigmaLat * sigmaLat)
    IN  [k \in DOMAIN logOdds |->
            LET ix == k % gridSize
                iy == k \div gridSize
            IN  IF ix >= ixMin /\ ix <= ixMax /\ iy >= iyMin /\ iy <= iyMax
                THEN updateCell(logOdds[k], gaussianLogOdds(scale, exponent(ix, iy)), settings)
                ELSE logOdds[k]]

\* sign(p1, p2, p3) of addFreespaceCone
sign(p1, p2, p3) ==
    (p1[1] - p3[1]) * (p2[2] - p3[2]) - (p2[1] - p3[1]) * (p1[2] - p3[2])

\* pointInTriangle(p, a, b, c) of addFreespaceCone
pointInTriangle(p, a, b, c) ==
    LET d1 == sign(p, a, b)
        d2 == sign(p, b, c)
        d3 == sign(p, c, a)
        hasNeg == d1 < 0 \/ d2 < 0 \/ d3 < 0
        hasPos == d1 > 0 \/ d2 > 0 \/ d3 > 0
    IN  ~(hasNeg /\ hasPos)

\* addFreespaceCone(sensorPosition, azimuth, range, rangeAccuracy, amplitude):
\* the plausibility of the shortened range is the point's
addFreespaceCone(logOdds, sensorPosition, forward, range_m, rangeAccuracy_m, point, settings, gridSize) ==
    LET freeSpaceRange == range_m - settings.freespaceRangeSigmaFactor * Max(0, rangeAccuracy_m)
        freeSpacePlausibility == computePlausibility(point, settings)
        sinA == settings.freespaceAngleAccuracy[1]
        cosA == settings.freespaceAngleAccuracy[2]
        left == <<sensorPosition[1]
                      + RoundDiv(freeSpaceRange * (forward[1] * cosA - forward[2] * sinA), 25),
                  sensorPosition[2]
                      + RoundDiv(freeSpaceRange * (forward[2] * cosA + forward[1] * sinA), 25)>>
        right == <<sensorPosition[1]
                       + RoundDiv(freeSpaceRange * (forward[1] * cosA + forward[2] * sinA), 25),
                   sensorPosition[2]
                       + RoundDiv(freeSpaceRange * (forward[2] * cosA - forward[1] * sinA), 25)>>
        delta == -RoundDiv(Abs(settings.missDecrement) * freeSpacePlausibility, ProbOne)
        minX == Min(sensorPosition[1], Min(left[1], right[1]))
        maxX == Max(sensorPosition[1], Max(left[1], right[1]))
        minY == Min(sensorPosition[2], Min(left[2], right[2]))
        maxY == Max(sensorPosition[2], Max(left[2], right[2]))
        last == gridSize - 1
        ixMin == clamp(toIndexFloor(minX, settings, gridSize), 0, last)
        ixMax == clamp(toIndexCeil(maxX, settings, gridSize), 0, last)
        iyMin == clamp(toIndexFloor(minY, settings, gridSize), 0, last)
        iyMax == clamp(toIndexCeil(maxY, settings, gridSize), 0, last)
    IN  IF \/ range_m > settings.maxFreeSpaceRange_m
           \/ freeSpaceRange <= 0
           \/ freeSpacePlausibility < settings.minPlausibility
        THEN logOdds
        ELSE [k \in DOMAIN logOdds |->
                LET ix == k % gridSize
                    iy == k \div gridSize
                    position == <<cellCenter(ix, settings, gridSize),
                                  cellCenter(iy, settings, gridSize)>>
                IN  IF /\ ix >= ixMin /\ ix <= ixMax /\ iy >= iyMin /\ iy <= iyMax
                       /\ pointInTriangle(position, sensorPosition, left, right)
                    THEN updateCell(logOdds[k], delta, settings)
                    ELSE logOdds[k]]

\* update(points): the range of a point, measured or else from its sensor
effectiveRangeMeasuredOnly(point, relativeNorm) == point.range_m

effectiveRange(point, relativeNorm) ==
    IF point.range_m > 0 THEN point.range_m ELSE relativeNorm

\* update(points): one point of the loop
updatePoint(logOdds, point, settings, gridSize) ==
    LET detectionTypeValid == point.radarValid # 0 \/ point.superResolution # 0
        detectionPosition == <<point.x, point.y>>
        sensorPosition == <<point.sensorLateral_m, point.sensorLongitudinal_m>>
        relativeVector == <<detectionPosition[1] - sensorPosition[1],
                            detectionPosition[2] - sensorPosition[2]>>
        relativeNorm == length(relativeVector)
        range_m == effectiveRange(point, relativeNorm)
        forward == IF relativeNorm > 0
                   THEN <<RoundDiv(5 * relativeVector[1], relativeNorm),
                          RoundDiv(5 * relativeVector[2], relativeNorm)>>
                   ELSE LET polarity == IF point.azimuthPolarity = 0 THEN 1
                                        ELSE point.azimuthPolarity
                            azimuth == -point.azimuthRaw * polarity + point.boresightAngle
                        IN  <<5 * Sin4(azimuth), 5 * Cos4(azimuth)>>
        accuracy == computeSensorAccuracies(point, settings)
        plausibility == computePlausibility(point, settings)
        isStationary == point.isStationary # 0 \/ point.isStatic # 0 \/ point.motionStatus = 0
        occupied ==
            IF /\ settings.enableOccupied
               /\ plausibility >= settings.minPlausibility
               /\ (isStationary \/ settings.alwaysMapDynamicDetections)
            THEN IF settings.radarModel = "Gaussian"
                 THEN addGaussian(logOdds, detectionPosition, forward, range_m, accuracy,
                                  plausibility, settings, gridSize)
                 ELSE addHit(logOdds, detectionPosition, plausibility, settings, gridSize)
            ELSE logOdds
    IN  IF ~detectionTypeValid THEN logOdds
        ELSE IF range_m <= settings.minRange_m THEN logOdds
        ELSE IF settings.enableFreespace
             THEN addFreespaceCone(occupied, sensorPosition, forward, range_m, accuracy.range,
                                   point, settings, gridSize)
             ELSE occupied

\* update(points): the loop from point i on
RECURSIVE updateFrom(_, _, _, _, _)
updateFrom(i, points, logOdds, settings, gridSize) ==
    IF i > Len(points) THEN logOdds
    ELSE updateFrom(i + 1, points, updatePoint(logOdds, points[i], settings, gridSize),
                    settings, gridSize)

\* occupiedCells() listing only the cells strictly above the threshold
RECURSIVE occupiedCellsAbove(_, _, _, _)
occupiedCellsAbove(k, logOdds, settings, gridSize) ==
    IF k >= gridSize * gridSize THEN <<>>
    ELSE (IF logOdds[k] > settings.occupiedThreshold
          THEN <<  <<cellCenter(k % gridSize, settings, gridSize),
                     cellCenter(k \div gridSize, settings, gridSize)>>  >>
          ELSE <<>>) \o occupiedCellsAbove(k + 1, logOdds, settings, gridSize)

\* occupiedCells(): the centres of the cells at or above the threshold, row-major
RECURSIVE occupiedCellsFrom(_, _, _, _)
occupiedCellsFrom(k, logOdds, settings, gridSize) ==
    IF k >= gridSize * gridSize THEN <<>>
    ELSE (IF logOdds[k] >= settings.occupiedThreshold
          THEN <<  <<cellCenter(k % gridSize, settings, gridSize),
                     cellCenter(k \div gridSize, settings, gridSize)>>  >>
          ELSE <<>>) \o occupiedCellsFrom(k + 1, logOdds, settings, gridSize)

\* The settings the grid is built and rebuilt with: the Gaussian model, the
\* hit model at a zero threshold, the hit model with free space on a small
\* map, and the Gaussian model with free space and a positive lower bound.
MapSettings ==
    {Settings,
     [Settings EXCEPT !.radarModel = "Hits", !.occupiedThreshold = 0],
     [Settings EXCEPT !.radarModel = "Hits", !.enableFreespace = TRUE, !.mapRadius = 15],
     [Settings EXCEPT !.enableFreespace = TRUE, !.minLogOdds = 200]}

\* RadarPoint: a stationary detection two metres ahead of its sensor with a
\* measured range just above the minimum range
PointAhead ==
    [x |-> 5, y |-> 15, range_m |-> 21, radarValid |-> 1, superResolution |-> 0,
     sensorLateral_m |-> 5, sensorLongitudinal_m |-> -5, sensorIndex |-> 0,
     isStationary |-> 1, isStatic |-> 0, motionStatus |-> -1,
     azimuthRaw |-> 0, azimuthPolarity |-> 0, boresightAngle |-> 0,
     plausibility |-> ProbOne]
\* the same detection measured at exactly the minimum range
PointAtMinRange == [PointAhead EXCEPT !.range_m = 20]
\* the same detection with neither radarValid nor superResolution
PointUnflagged == [PointAhead EXCEPT !.radarValid = 0]
\* a super-resolution detection without a measured range, three metres away
PointSuperResolution ==
    [PointAhead EXCEPT !.radarValid = 0, !.superResolution = 1, !.range_m = 0,
                       !.sensorLongitudinal_m = -15]
\* a detection without a measured range, at the minimum range from its sensor
PointNear == [PointAhead EXCEPT !.range_m = 0]
\* a detection half a metre past the edge of the three-metre map
PointBeyond == [PointAhead EXCEPT !.x = 40, !.y = 10, !.sensorLateral_m = 20,
                                  !.sensorLongitudinal_m = 10]
PointClouds ==
    {<<PointAhead>>, <<PointAtMinRange>>, <<PointUnflagged>>, <<PointSuperResolution>>,
     <<PointNear>>, <<PointBeyond>>, <<PointUnflagged, PointAhead>>,
     <<PointAhead, PointAtMinRange>>}

(***************************************************************************)
(* RadarVirtualSensorMapping: the virtual ring.  Positions and distances   *)
(* are in decimetres, a direction is (cos, sin) in thousandths, and an     *)
(* angle is counted in steps of 2.5 degrees.                               *)
(***************************************************************************)
\* std::sin at the steps of the first quarter turn, in thousandths
SineTable ==
    <<0, 44, 87, 131, 174, 216, 259, 301, 342, 383, 423, 462, 500, 537, 574, 609, 643,
      676, 707, 737, 766, 793, 819, 843, 866, 887, 906, 924, 940, 954, 966, 976, 985,
      991, 996, 999, 1000>>
QuarterTurn == Len(SineTable) - 1
FullTurn == 4 * QuarterTurn

\* std::sin and std::cos of an angle in steps
sin(angle) ==
    LET a == angle % FullTurn
    IN  IF a <= QuarterTurn THEN SineTable[a + 1]
        ELSE IF a <= 2 * QuarterTurn THEN SineTable[2 * QuarterTurn - a + 1]
        ELSE IF a <= 3 * QuarterTurn THEN -SineTable[a - 2 * QuarterTurn + 1]
        ELSE -SineTable[FullTurn - a + 1]
cos(angle) == sin(angle + QuarterTurn)

\* std::numeric_limits<float>::infinity(): above every distance of the model
Infinity == 1000000

\* the least element of a non-empty set of numbers (std::min over a loop)
MinOf(S) == CHOOSE x \in S : \A y \in S : x <= y

\* cross2(a, b)
cross2(a, b) == a[1] * b[2] - a[2] * b[1]

\* rebuildSegments(): the directions (cos, sin) of (i + 0.5) * 2 pi / count
rebuildSegments(count) ==
    [i \in 1..count |->
        LET angle == ((2 * i - 1) * FullTurn) \div (2 * count)
        IN  <<cos(angle), sin(angle)>>]

\* std::vector::assign(count, value)
assign(count, value) == [i \in 1..count |-> value]

\* segmentIndex(std::atan2(delta.y, delta.x)), counted from 1: the step whose
\* wedge holds delta, scaled to the segment count
segmentIndex(delta, count) ==
    LET step == CHOOSE k \in 0..(FullTurn - 1) :
                    /\ cross2(<<cos(k), sin(k)>>, delta) >= 0
                    /\ cross2(<<cos(k + 1), sin(k + 1)>>, delta) < 0
    IN  Min((step * count) \div FullTurn, count - 1) + 1

\* raySegmentIntersection(origin, direction, a, b, tOut)
raySegmentIntersection(origin, direction, a, b) ==
    LET edge == <<b[1] - a[1], b[2] - a[2]>>
        denom == cross2(direction, edge)
        delta == <<a[1] - origin[1], a[2] - origin[2]>>
        t == cross2(delta, edge)
        u == cross2(delta, direction)
    IN  IF denom = 0 THEN [hit |-> FALSE, t |-> 0]
        ELSE IF denom > 0
             THEN [hit |-> t >= 0 /\ u >= 0 /\ u <= denom, t |-> RoundDiv(1000 * Abs(t), denom)]
             ELSE [hit |-> t <= 0 /\ u <= 0 /\ u >= denom, t |-> RoundDiv(1000 * Abs(t), -denom)]

\* the loop of contourRayDistance and polygonRayDistance: the nearest hit on
\* the closed polygon, or infinity
nearestHit(origin, direction, polygon) ==
    LET count == Len(polygon)
        hits == {raySegmentIntersection(origin, direction, polygon[i],
                                        polygon[(i % count) + 1]) : i \in 1..count}
    IN  MinOf({Infinity} \cup {h.t : h \in {g \in hits : g.hit}})

\* contourRayDistance(origin, direction)
contourRayDistance(origin, direction, contour) ==
    IF Len(contour) < 3 THEN 0
    ELSE LET best == nearestHit(origin, direction, contour)
         IN  IF best = Infinity THEN 0 ELSE best

\* polygonRayDistance(origin, direction, polygon)
polygonRayDistance(origin, direction, polygon) == nearestHit(origin, direction, polygon)

\* setVehicleContour(contour): the mean of the contour points
centerOf(contour) ==
    LET Sum[i \in 0..Len(contour)] ==
            IF i = 0 THEN <<0, 0>>
            ELSE <<Sum[i - 1][1] + contour[i][1], Sum[i - 1][2] + contour[i][2]>>
    IN  <<RoundDiv(Sum[Len(contour)][1], Len(contour)),
          RoundDiv(Sum[Len(contour)][2], Len(contour))>>

\* setVehicleContour(contour): the start distances along the directions
startDistances(contour, directions) ==
    [i \in 1..Len(directions) |->
        Max(0, contourRayDistance(centerOf(contour), directions[i], contour))]

\* update without resetSegments: the two loops shrinking the distances stored
accumulatedEndDistances(detections, trackFootprints, center, directions, startDist, ready) ==
    LET count == Len(directions)
        deltaOf(point) == <<point[1] - center[1], point[2] - center[2]>>
        accepted(i) ==
            {length(deltaOf(detections[e])) : e \in
                {d \in 1..Len(detections) :
                    /\ length(deltaOf(detections[d])) > 0
                    /\ segmentIndex(deltaOf(detections[d]), count) = i
                    /\ length(deltaOf(detections[d])) > startDist[i]}}
            \cup {distance \in {polygonRayDistance(center, directions[i], trackFootprints[f]) :
                                  f \in 1..Len(trackFootprints)} :
                      distance # Infinity /\ distance > 0 /\ distance > startDist[i]}
    IN  IF ~ready THEN assign(count, Infinity)
        ELSE [i \in 1..count |-> MinOf({m_segmentEndDist[i]} \cup accepted(i))]

\* update(detections, trackFootprints): the end distances after resetSegments
\* and the two loops, each segment keeping the least accepted distance
updatedEndDistances(detections, trackFootprints, center, directions, startDist, ready) ==
    LET count == Len(directions)
        deltaOf(point) == <<point[1] - center[1], point[2] - center[2]>>
        fromDetections(i) ==
            {length(deltaOf(detections[d])) : d \in
                {e \in 1..Len(detections) :
                    /\ length(deltaOf(detections[e])) > 0
                    /\ segmentIndex(deltaOf(detections[e]), count) = i
                    /\ length(deltaOf(detections[e])) > startDist[i]}}
        fromFootprints(i) ==
            {distance \in {polygonRayDistance(center, directions[i], trackFootprints[f]) :
                              f \in 1..Len(trackFootprints)} :
                distance # Infinity /\ distance > 0 /\ distance > startDist[i]}
    IN  IF ~ready THEN assign(count, Infinity)
        ELSE [i \in 1..count |-> MinOf({Infinity} \cup fromDetections(i) \cup fromFootprints(i))]

(***************************************************************************)
(* RadarPlayback: the text streams and their multiplexing.  A file is the  *)
(* sequence of its lines; of a line the model keeps whether the parser     *)
(* accepts it and the number in its timestamp column.  The pipeline the    *)
(* playback owns is private to it and is represented by the sequence of    *)
(* the calls made to it.                                                   *)
(***************************************************************************)
\* the lines of a file: a frame with all its columns; a line that stops after the
\* header columns; a line that cannot be tokenized; an empty line
Record(timestamp) == [kind |-> "record", timestamp |-> timestamp]
Truncated(timestamp) == [kind |-> "truncated", timestamp |-> timestamp]
Garbage == [kind |-> "garbage", timestamp |-> 0]
Empty == [kind |-> "empty", timestamp |-> 0]

\* what a conversion of a value outside the range of the target type may produce:
\* zero, the top bit alone, all bits
StrayTimestamps == {0, Uint64Max \div 2 + 1, Uint64Max}

\* static_cast<uint64_t>(timestampOutRaw) of the double read from the line: the
\* value when it lies in the range of uint64_t, undefined otherwise
toUint64(value) ==
    IF value >= 0 /\ value < Uint64Max THEN {value} ELSE StrayTimestamps

\* parseCornerLine, parseFrontLine and parseTrackLine on a line, as far as the stream
\* sees them: [parsed, timestampUs], the result and the timestamp out-parameter,
\* which is written once the header columns have been read
parseLine(line, timestampUs) ==
    CASE line.kind = "record" ->
             {[parsed |-> TRUE, timestampUs |-> t] : t \in toUint64(line.timestamp)}
      [] line.kind = "truncated" ->
             {[parsed |-> FALSE, timestampUs |-> t] : t \in toUint64(line.timestamp)}
      [] OTHER -> {[parsed |-> FALSE, timestampUs |-> timestampUs]}

\* StreamState{} of the stream opened on input file `input`; position is the number
\* of lines read from stream.file
StreamState(input) ==
    [input |-> input, position |-> 0, hasPending |-> FALSE, exhausted |-> FALSE,
     timestampUs |-> 0, lastTimestampUs |-> 0]

\* readNextFrame, the loop `while (readNextNonEmptyLine(stream.file, line))` and the
\* test of eof() after it: the states the stream can be left in
RECURSIVE readPending(_, _)
readPending(stream, lines) ==
    IF stream.position >= Len(lines)
    THEN {[stream EXCEPT !.exhausted = TRUE]}
    ELSE LET line == lines[stream.position + 1]
             next == [stream EXCEPT !.position = @ + 1]
         IN  IF line.kind = "empty" THEN readPending(next, lines)
             ELSE UNION {IF p.parsed
                         THEN {[next EXCEPT !.timestampUs = p.timestampUs,
                                            !.lastTimestampUs = p.timestampUs,
                                            !.hasPending = TRUE]}
                         ELSE readPending([next EXCEPT !.timestampUs = p.timestampUs], lines) :
                            p \in parseLine(line, next.timestampUs)}

\* readNextFrame, the body of the first loop over the streams
fillStream(stream, lines) ==
    IF stream.exhausted \/ stream.hasPending THEN {stream} ELSE readPending(stream, lines)

\* readNextFrame, the second loop: the earliest pending timestamp, or the maximum of
\* uint64_t when no stream has a pending record
latestTimestamp(streams) ==
    LET pending == {streams[i].timestampUs : i \in {j \in 1..Len(streams) : streams[j].hasPending}}
    IN  IF pending = {} THEN Uint64Max
        ELSE CHOOSE t \in pending : \A u \in pending : u <= t

earliestTimestamp(streams) ==
    MinOf({Uint64Max}
              \cup {streams[i].timestampUs : i \in {j \in 1..Len(streams) : streams[j].hasPending}})

\* RadarFrame{}; merged lists the records whose pipeline output the frame holds
RadarFrame == [timestampUs |-> 0, merged |-> <<>>]

\* the pipeline call readNextFrame makes for a stream of the given type
pipelineCallOf(type) ==
    CASE type = "CornerDetections" -> "processCornerDetections"
      [] type = "FrontDetections" -> "processFrontDetections"
      [] OTHER -> "processTrackFusion"

\* the elements of a sequence that satisfy Test, in order
SelectIndices(n, Test(_)) ==
    LET RECURSIVE from(_)
        from(i) == IF i > n THEN <<>>
                   ELSE IF Test(i) THEN <<i>> \o from(i + 1) ELSE from(i + 1)
    IN  from(1)

(***************************************************************************)
(* OfflineRadarDataReader: one TextRadarSensor per configured file that    *)
(* was found, and the merge of their scans by timestamp.  A point of a     *)
(* scan is represented by the file and the line it was parsed from.  The   *)
(* timestamps of the files of the model lie inside the range of uint64_t.  *)
(***************************************************************************)
\* TextRadarSensor(path): m_identifier is the file name; position is the number of
\* lines read from m_file
TextRadarSensor(name, lines) ==
    [identifier |-> name, lines |-> lines, position |-> 0, maxRange |-> 0]

\* TextRadarSensor::readNextScan(destination, timestampUs): the result, the sensor
\* after the call and the two out-parameters
RECURSIVE TextRadarSensor_readNextScan(_, _, _)
TextRadarSensor_readNextScan(sensor, points, timestampUs) ==
    IF sensor.position >= Len(sensor.lines)
    THEN [ret |-> FALSE, sensor |-> sensor, points |-> points, timestampUs |-> timestampUs]
    ELSE LET line == sensor.lines[sensor.position + 1]
             next == [sensor EXCEPT !.position = @ + 1]
         IN  IF line.kind = "empty"
             THEN TextRadarSensor_readNextScan(next, points, timestampUs)
             ELSE IF line.kind = "record"
             THEN [ret |-> TRUE, sensor |-> next,
                   points |-> <<[source |-> sensor.identifier, line |-> next.position]>>,
                   timestampUs |-> line.timestamp]
             ELSE TextRadarSensor_readNextScan(next, <<>>, timestampUs)

\* SourceFrame{}
SourceFrame == [points |-> <<>>, timestampUs |-> 0, ready |-> FALSE, finished |-> FALSE]

\* prepareFrames(), from index on (counted from 1): the sensors and frames after the
\* loop and its result
RECURSIVE prepareFramesFrom(_, _, _, _)
prepareFramesFrom(index, sensors, frames, anyReady) ==
    IF index > Len(sensors)
    THEN [sensors |-> sensors, frames |-> frames, anyReady |-> anyReady]
    ELSE IF frames[index].ready \/ frames[index].finished
    THEN prepareFramesFrom(index + 1, sensors, frames, anyReady \/ frames[index].ready)
    ELSE LET read == TextRadarSensor_readNextScan(sensors[index], frames[index].points,
                                                  frames[index].timestampUs)
         IN  IF read.ret
             THEN prepareFramesFrom(index + 1,
                                    [sensors EXCEPT ![index] = read.sensor],
                                    [frames EXCEPT ![index] =
                                        [points |-> read.points,
                                         timestampUs |-> read.timestampUs,
                                         ready |-> TRUE, finished |-> FALSE]],
                                    TRUE)
             ELSE prepareFramesFrom(index + 1,
                                    [sensors EXCEPT ![index] = read.sensor],
                                    [frames EXCEPT ![index] =
                                        [points |-> <<>>,
                                         timestampUs |-> read.timestampUs,
                                         ready |-> FALSE, finished |-> TRUE]],
                                    anyReady)

prepareFrames(sensors, frames) == prepareFramesFrom(1, sensors, frames, FALSE)

\* the points of the frames at the given indices, appended in order
RECURSIVE pointsOf(_, _)
pointsOf(frames, indices) ==
    IF indices = <<>> THEN <<>>
    ELSE frames[Head(indices)].points \o pointsOf(frames, Tail(indices))

NoCall == [op |-> "none", sensor |-> -1, timestamp_us |-> 0, input |-> <<>>,
           ret |-> FALSE, live |-> <<>>, fed |-> <<>>, estimated |-> FALSE,
           indexed |-> {}, occupiedBefore |-> 0]

\* RadarProcessingPipeline(): the pipeline and its caller's containers
PipelineConstructed ==
    /\ m_parameters = NullParameters
    /\ m_sensorStates = [s \in 0..(Count - 1) |-> DefaultSensorUpdateState]
    /\ m_tracks = <<>>
    /\ m_tracksTimestamp_us = 0
    /\ m_motionState = DefaultMotionState
    /\ m_hasExternalMotionState = FALSE
    /\ m_odometry = DefaultOdometryEstimate
    /\ m_lastOdometry = DefaultOdometryEstimate
    /\ output = EmptyDetections
    /\ outputLong = EmptyDetections
    /\ tracksOutput = EmptyTracks
    /\ call = NoCall
    /\ ncalls = 0

\* FusedRadarMapping(settings)
FusedRadarMapping(settings) ==
    /\ m_settings = settings
    /\ m_gridSize = gridSizeOf(settings)
    /\ m_logOdds = initializeGrid(settings)

\* no occupancy grid has been constructed
NoFusedRadarMapping ==
    /\ m_settings = <<>>
    /\ m_gridSize = 0
    /\ m_logOdds = <<>>

\* RadarVirtualSensorMapping(): the member initializers, then
\* setSegmentCount(kDefaultSegmentCount) on the empty directions
RadarVirtualSensorMapping ==
    /\ m_vehicleContour = <<>>
    /\ m_vehicleCenter = <<0, 0>>
    /\ m_segmentCount = kDefaultSegmentCount
    /\ m_segmentDirections = rebuildSegments(kDefaultSegmentCount)
    /\ m_segmentStartDist = assign(kDefaultSegmentCount, 0)
    /\ m_segmentEndDist = assign(kDefaultSegmentCount, Infinity)
    /\ m_ready = FALSE

\* no virtual ring has been constructed
NoRadarVirtualSensorMapping ==
    /\ m_vehicleContour = <<>>
    /\ m_vehicleCenter = <<0, 0>>
    /\ m_segmentCount = 0
    /\ m_segmentDirections = <<>>
    /\ m_segmentStartDist = <<>>
    /\ m_segmentEndDist = <<>>
    /\ m_ready = FALSE

\* no playback has been constructed
NoRadarPlayback ==
    /\ settings_inputFiles = <<>>
    /\ impl_initialized = FALSE
    /\ impl_streams = <<>>
    /\ impl_pipeline = <<>>
    /\ frame = RadarFrame

\* no offline reader has been constructed
NoOfflineRadarDataReader ==
    /\ m_dataDirectory = <<>>
    /\ m_files = <<>>
    /\ m_sensors = <<>>
    /\ m_frames = <<>>
    /\ m_lastFrameSources = <<>>
    /\ destination = <<>>
    /\ scanTimestampUs = 0

\* no file reader exists
NoReaders == NoRadarPlayback /\ NoOfflineRadarDataReader

\* the pipeline on its own: no mapping object and no reader exists
Init ==
    /\ PipelineConstructed
    /\ NoFusedRadarMapping
    /\ NoRadarVirtualSensorMapping
    /\ NoReaders

\* initialize(parameters)
initialize(parameters) ==
    /\ ncalls < MaxCalls
    /\ UNCHANGED <<maps, readers>>
    /\ m_parameters' = parameters
    /\ call' = [NoCall EXCEPT !.op = "initialize", !.input = parameters]
    /\ ncalls' = ncalls + 1
    /\ UNCHANGED <<m_sensorStates, m_tracks, m_tracksTimestamp_us, m_motionState,
                   m_hasExternalMotionState, m_odometry, m_lastOdometry, outputs>>

\* updateVehicleState(state)
updateVehicleState(state) ==
    /\ ncalls < MaxCalls
    /\ UNCHANGED <<maps, readers>>
    /\ m_motionState' = state
    /\ m_hasExternalMotionState' = TRUE
    /\ call' = [NoCall EXCEPT !.op = "updateVehicleState", !.input = state]
    /\ ncalls' = ncalls + 1
    /\ UNCHANGED <<m_parameters, m_sensorStates, m_tracks, m_tracksTimestamp_us,
                   m_odometry, m_lastOdometry, outputs>>

\* the result of a call that finds m_parameters null
NotInitializedAccepted == TRUE

NotInitialized == FALSE

\* return updateValid ? m_lastOdometry.valid : false
ValidOdometryUngated(updateValid, lastOdometry) == lastOdometry.valid

ValidOdometry(updateValid, lastOdometry) == IF updateValid THEN lastOdometry.valid ELSE FALSE

\* a detection frame, after mapping: classifyDetections and associateDetections for
\* one sensor; <<container, m_tracks>> after both
ClassifyAndAssociate(sensor, t, mapped, parameters, motion, tracks, tracksTimestamp) ==
    associateDetections(sensor, t, classifyDetections(sensor, mapped, parameters, motion),
                        parameters, motion, tracks, tracksTimestamp)

\* the odometry feedback of a detection frame: feeds `detections` to the estimator
\* unless an external motion state was supplied; sets m_odometry, m_lastOdometry,
\* m_motionState and the call record `made`
OdometryFeedbackAlways(calibration, detections, updateValid, made) ==
    \E o \in processDetections(calibration, detections, m_odometry) :
        /\ m_odometry' = o.estimate
        /\ m_lastOdometry' = IF o.ret THEN o.estimate ELSE m_lastOdometry
        /\ m_motionState' = IF o.ret THEN FeedBack(m_motionState, o.estimate)
                            ELSE m_motionState
        /\ call' = [made EXCEPT !.ret = ValidOdometry(updateValid, m_lastOdometry'),
                                !.fed = <<detections>>,
                                !.estimated = o.ret]

OdometryFeedbackLiveOnly(calibration, detections, updateValid, made) ==
    IF ~m_hasExternalMotionState /\ updateValid
    THEN \E o \in processDetections(calibration, detections, m_odometry) :
            /\ m_odometry' = o.estimate
            /\ m_lastOdometry' = IF o.ret THEN o.estimate ELSE m_lastOdometry
            /\ m_motionState' = IF o.ret THEN FeedBack(m_motionState, o.estimate)
                                ELSE m_motionState
            /\ call' = [made EXCEPT !.ret = ValidOdometry(updateValid, m_lastOdometry'),
                                    !.fed = <<detections>>,
                                    !.estimated = o.ret]
    ELSE /\ call' = [made EXCEPT !.ret = ValidOdometry(updateValid, m_lastOdometry)]
         /\ UNCHANGED <<m_odometry, m_lastOdometry, m_motionState>>

OdometryFeedback(calibration, detections, updateValid, made) ==
    IF ~m_hasExternalMotionState
    THEN \E o \in processDetections(calibration, detections, m_odometry) :
            /\ m_odometry' = o.estimate
            /\ m_lastOdometry' = IF o.ret THEN o.estimate ELSE m_lastOdometry
            /\ m_motionState' = IF o.ret THEN FeedBack(m_motionState, o.estimate)
                                ELSE m_motionState
            /\ call' = [made EXCEPT !.ret = ValidOdometry(updateValid, m_lastOdometry'),
                                    !.fed = <<detections>>,
                                    !.estimated = o.ret]
    ELSE /\ call' = [made EXCEPT !.ret = ValidOdometry(updateValid, m_lastOdometry)]
         /\ UNCHANGED <<m_odometry, m_lastOdometry, m_motionState>>

\* the indices of m_sensorStates and of radarCalibrations
SensorIndices == 0..(Count - 1)

\* what an element read past the end of radarCalibrations may hold
StrayCalibrations == {RadarCalibration, [RadarCalibration EXCEPT !.polarity = -1]}

\* m_sensorStates[static_cast<std::size_t>(sensor)] in updateSensorStatus is an
\* unchecked std::array access: with the index in range the call is
\* updateSensorStatus; past the end the element read is whatever lies there, so the
\* frame may be found live or not, and the write lands outside the array
SensorStatusAt(states, sensor, t) ==
    IF sensor \in SensorIndices THEN {updateSensorStatus(states, sensor, t)}
    ELSE {[live |-> l, states |-> states] : l \in BOOLEAN}

\* m_parameters->radarCalibrations[static_cast<std::size_t>(sensor)], unchecked as well:
\* the parameters as the frame sees them
ParametersAt(parameters, sensor) ==
    IF sensor \in SensorIndices THEN {parameters}
    ELSE {[parameters EXCEPT !.radarCalibrations = (sensor :> c) @@ @] :
             c \in StrayCalibrations}

\* processCornerDetections(sensor, timestamp_us, input, output)
processCornerDetections(sensor, timestamp_us, input) ==
    /\ ncalls < MaxCalls
    /\ UNCHANGED <<maps, readers>>
    /\ ncalls' = ncalls + 1
    /\ IF m_parameters = NullParameters
       THEN /\ call' = [NoCall EXCEPT !.op = "processCornerDetections", !.sensor = sensor,
                                      !.timestamp_us = timestamp_us, !.input = input,
                                      !.ret = NotInitialized]
            /\ UNCHANGED <<pipeline, outputs>>
       ELSE \E status \in SensorStatusAt(m_sensorStates, sensor,
                                            input.header.timestamp_us) :
            \E parameters \in ParametersAt(m_parameters, sensor) :
            \E assoc \in {ClassifyAndAssociate(
                              sensor,
                              ObservationTime(timestamp_us, m_parameters.cornerHardwareDelay),
                              mapCornerDetections(input, output),
                              parameters, m_motionState, m_tracks, m_tracksTimestamp_us)} :
                /\ m_sensorStates' = status.states
                /\ output' = assoc[1]
                /\ m_tracks' = assoc[2]
                /\ OdometryFeedback(parameters.radarCalibrations[sensor], assoc[1],
                                    status.live,
                                    [NoCall EXCEPT !.op = "processCornerDetections",
                                                   !.sensor = sensor,
                                                   !.timestamp_us = timestamp_us,
                                                   !.input = input,
                                                   !.live = <<status.live>>,
                                                   !.indexed = {sensor}])
                /\ UNCHANGED <<m_parameters, m_tracksTimestamp_us, m_hasExternalMotionState,
                               outputLong, tracksOutput>>

\* processFrontDetections(timestamp_us, input, outputShort, outputLong)
processFrontDetections(timestamp_us, input) ==
    /\ ncalls < MaxCalls
    /\ UNCHANGED <<maps, readers>>
    /\ ncalls' = ncalls + 1
    /\ IF m_parameters = NullParameters
       THEN /\ call' = [NoCall EXCEPT !.op = "processFrontDetections",
                                      !.timestamp_us = timestamp_us, !.input = input,
                                      !.ret = NotInitialized]
            /\ UNCHANGED <<pipeline, outputs>>
       ELSE \E updateShort \in {updateSensorStatus(m_sensorStates, FrontShort,
                                                   input.header.timestamp_us)} :
            \E updateLong \in {updateSensorStatus(updateShort.states, FrontLong,
                                                  input.header.timestamp_us)} :
            \E mapped \in {mapFrontDetections(input, output, outputLong)} :
            \E observationTime \in {ObservationTime(timestamp_us,
                                                    m_parameters.frontCenterHardwareDelay)} :
            \E assocShort \in {ClassifyAndAssociate(FrontShort, observationTime, mapped[1],
                                                    m_parameters, m_motionState, m_tracks,
                                                    m_tracksTimestamp_us)} :
            \E assocLong \in {ClassifyAndAssociate(FrontLong, observationTime, mapped[2],
                                                   m_parameters, m_motionState, assocShort[2],
                                                   m_tracksTimestamp_us)} :
                /\ m_sensorStates' = updateLong.states
                /\ output' = assocShort[1]
                /\ outputLong' = assocLong[1]
                /\ m_tracks' = assocLong[2]
                /\ OdometryFeedback(m_parameters.radarCalibrations[FrontShort], assocShort[1],
                                    updateShort.live /\ updateLong.live,
                                    [NoCall EXCEPT !.op = "processFrontDetections",
                                                   !.sensor = FrontShort,
                                                   !.timestamp_us = timestamp_us,
                                                   !.input = input,
                                                   !.live = <<updateShort.live,
                                                              updateLong.live>>,
                                                   !.indexed = {FrontShort, FrontLong}])
                /\ UNCHANGED <<m_parameters, m_tracksTimestamp_us, m_hasExternalMotionState,
                               tracksOutput>>

\* the loop body of processTrackFusion: the EnhancedTrack built from raw slot r
EnhancedTrack(r) ==
    [vcsLongitudinalPosition |-> r.vcsLongitudinalPosition,
     vcsLateralPosition |-> r.vcsLateralPosition,
     vcsLateralVelocity |-> r.vcsLateralVelocity,
     vcsLongitudinalVelocity |-> r.vcsLongitudinalVelocity,
     vcsLateralAcceleration |-> r.vcsLateralAcceleration,
     vcsLongitudinalAcceleration |-> r.vcsLongitudinalAcceleration,
     vcsHeading |-> r.vcsHeading,
     vcsHeadingRate |-> r.vcsHeadingRate,
     length |-> r.length,
     width |-> r.width,
     height |-> r.height,
     probabilityOfDetection |-> r.probabilityOfDetection,
     id |-> r.id,
     objectClassification |-> r.objectClassification,
     objectClassificationConfidence |-> r.objectClassificationConfidence,
     isMoving |-> r.movingFlag # 0,
     isStationary |-> r.stationaryFlag # 0,
     isMoveable |-> r.moveableFlag # 0,
     isVehicle |-> r.vehicleFlag # 0,
     status |-> r.status]

\* the TrackState built from an EnhancedTrack
TrackState(track) ==
    [position |-> <<track.vcsLongitudinalPosition, track.vcsLateralPosition>>,
     velocity |-> <<track.vcsLongitudinalVelocity, track.vcsLateralVelocity>>,
     acceleration |-> <<track.vcsLongitudinalAcceleration, track.vcsLateralAcceleration>>,
     length |-> track.length,
     width |-> track.width,
     height |-> track.height,
     heading |-> track.vcsHeading,
     headingRate |-> track.vcsHeadingRate,
     isStationary |-> track.isStationary,
     isMoveable |-> track.isMoveable,
     movingVotes |-> 0]

\* the loop of processTrackFusion from slot i on, appending to acc
RECURSIVE FusionLoopKeepAll(_, _, _)
FusionLoopKeepAll(i, slots, acc) ==
    IF i > kTrackCount THEN acc
    ELSE FusionLoopKeepAll(i + 1, slots, Append(acc, EnhancedTrack(slots[i])))

RECURSIVE FusionLoop(_, _, _)
FusionLoop(i, slots, acc) ==
    IF i > kTrackCount THEN acc
    ELSE IF slots[i].status = Invalid THEN FusionLoop(i + 1, slots, acc)
    ELSE FusionLoop(i + 1, slots, Append(acc, EnhancedTrack(slots[i])))

\* processTrackFusion(timestamp_us, input, output)
processTrackFusion(timestamp_us, input) ==
    /\ ncalls < MaxCalls
    /\ UNCHANGED <<maps, readers>>
    /\ ncalls' = ncalls + 1
    /\ LET kept == FusionLoop(1, input.slots, <<>>)
       IN  /\ tracksOutput' = [timestamp_us |-> timestamp_us, tracks |-> kept]
           /\ m_tracks' = [i \in 1..Len(kept) |-> TrackState(kept[i])]
    /\ m_tracksTimestamp_us' = timestamp_us
    /\ call' = [NoCall EXCEPT !.op = "processTrackFusion", !.timestamp_us = timestamp_us,
                              !.input = input]
    /\ UNCHANGED <<m_parameters, m_sensorStates, m_motionState, m_hasExternalMotionState,
                   m_odometry, m_lastOdometry, output, outputLong>>

(***************************************************************************)
(* The inputs offered to the pipeline.                                     *)
(***************************************************************************)
\* one raw return (one index of the parallel arrays of RawCornerDetections)
RawReturn(valid, superRes, azimuthRaw, rangeRate, lon, lat) ==
    [range_m |-> 0, rangeRate_ms |-> rangeRate, rangeRateRaw_ms |-> rangeRate,
     azimuthRaw |-> azimuthRaw, azimuth |-> azimuthRaw, amplitude_dBsm |-> 10,
     longitudinalOffset_m |-> lon, lateralOffset_m |-> lat, motionStatus |-> 0,
     radarValidReturn |-> valid, superResolutionDetection |-> superRes,
     nearTargetDetection |-> 0, hostVehicleClutter |-> 0, multibounceDetection |-> 0]

\* an empty slot, value-initialised
NullReturn ==
    [range_m |-> 0, rangeRate_ms |-> 0, rangeRateRaw_ms |-> 0, azimuthRaw |-> 0,
     azimuth |-> 0, amplitude_dBsm |-> 0, longitudinalOffset_m |-> 0,
     lateralOffset_m |-> 0, motionStatus |-> 0, radarValidReturn |-> 0,
     superResolutionDetection |-> 0, nearTargetDetection |-> 0, hostVehicleClutter |-> 0,
     multibounceDetection |-> 0]

\* ahead, closing at 2 m/s, at (1, 1)
ReturnAhead == RawReturn(1, 0, 0, -2, 1, 1)
\* abeam, no range rate, at (1, 1)
ReturnAbeam == RawReturn(1, 0, 1, 0, 1, 1)
\* ahead, no range rate, super-resolution only, at (1, 1)
ReturnStill == RawReturn(0, 1, 0, 0, 1, 1)

\* a frame of n returns: the first return, then the same return in every other slot
Returns(n, first, rest) == [i \in 1..n |-> IF i = 1 THEN first ELSE rest]

\* the contents of a corner frame: no return; two returns that determine the velocity;
\* two returns in line; one return
CornerReturns ==
    {Returns(kCornerReturnCount, NullReturn, NullReturn),
     Returns(kCornerReturnCount, ReturnAhead, ReturnAbeam),
     Returns(kCornerReturnCount, ReturnAhead, ReturnStill),
     Returns(kCornerReturnCount, ReturnStill, NullReturn)}

RawCornerInputs == {[header |-> Header(t), returns |-> r] : t \in Times, r \in CornerReturns}

\* the contents of a front frame: the short half, then the long half
FrontReturns ==
    {Returns(kCornerReturnCount, ReturnAhead, ReturnAbeam)
        \o Returns(kCornerReturnCount, ReturnStill, ReturnStill),
     Returns(kCornerReturnCount, ReturnStill, NullReturn)
        \o Returns(kCornerReturnCount, ReturnAhead, ReturnAbeam),
     Returns(kCornerReturnCount, NullReturn, NullReturn)
        \o Returns(kCornerReturnCount, ReturnStill, NullReturn)}

RawFrontInputs == {[header |-> Header(t), returns |-> r] : t \in Times, r \in FrontReturns}

\* one raw track slot (one index of the parallel arrays of RawTrackFusion): a box of
\* 4 m x 2 m at (1, 1), as in the pipeline test
RawTrack(status, moveable, vLon) ==
    [vcsLongitudinalPosition |-> 1, vcsLateralPosition |-> 1, length |-> 4, width |-> 2,
     height |-> 2, probabilityOfDetection |-> 1, id |-> 42, objectClassification |-> 1,
     objectClassificationConfidence |-> 1, status |-> status,
     vcsLateralVelocity |-> 0, vcsLongitudinalVelocity |-> vLon,
     vcsLateralAcceleration |-> 0, vcsLongitudinalAcceleration |-> 0,
     vcsHeading |-> 0, vcsHeadingRate |-> 0,
     movingFlag |-> moveable, stationaryFlag |-> 1 - moveable, moveableFlag |-> moveable,
     vehicleFlag |-> 1]

TrackInvalid == RawTrack(Invalid, 0, 0)
TrackMoveable == RawTrack(Updated, 1, 0)
TrackParked == RawTrack(Updated, 0, 0)

\* a track frame: the first slot, then the same track in every other slot
Slots(first, rest) == [i \in 1..kTrackCount |-> IF i = 1 THEN first ELSE rest]

RawTrackInputs ==
    {[slots |-> Slots(TrackInvalid, TrackInvalid)],
     [slots |-> Slots(TrackInvalid, TrackParked)],
     [slots |-> Slots(TrackMoveable, TrackParked)]}

\* the states a caller supplies to updateVehicleState
MotionInputs ==
    {[vLon_mps |-> 0, vLat_mps |-> 0, yawRate_rps |-> 0,
      vLonVariance |-> 1, vLatVariance |-> 1, yawRateVariance |-> 1],
     [vLon_mps |-> 2, vLat_mps |-> 0, yawRate_rps |-> 0,
      vLonVariance |-> 2, vLatVariance |-> 2, yawRateVariance |-> 2]}

Next ==
    \/ \E p \in {NullParameters, VehicleParameters} : initialize(p)
    \/ \E m \in MotionInputs : updateVehicleState(m)
    \/ \E in \in RawCornerInputs :
          processCornerDetections(FrontLeft, in.header.timestamp_us, in)
    \/ \E in \in RawFrontInputs : processFrontDetections(in.header.timestamp_us, in)
    \/ \E t \in Times, in \in RawTrackInputs : processTrackFusion(t, in)

Spec == Init /\ [][Next]_vars

(***************************************************************************)
(* A pipeline that has been running: initialized, holding a track snapshot *)
(* whose not-moveable track has collected votes up to either limit over    *)
(* the associations since the snapshot was taken.                          *)
(***************************************************************************)
\* the votes a not-moveable track has collected, in thousandths: at and next to the
\* limits and around zero
VoteLevels == {-VotesLimit, 500 - VotesLimit, 0, 500, VotesLimit - 500, VotesLimit}

\* a track driving ahead at 2 m/s that the track frame does not flag moveable
TrackAlongside == RawTrack(Updated, 0, 2)

\* m_tracks after processTrackFusion of a frame with the tracks `kept`, and `votes`
\* worth of associations with each track that is not flagged moveable
SnapshotWithVotes(kept, votes) ==
    [i \in 1..Len(kept) |->
        IF kept[i].isMoveable THEN TrackState(kept[i])
        ELSE [TrackState(kept[i]) EXCEPT !.movingVotes = votes]]

\* the track frames of the snapshots: a parked track; a moveable track and one
\* driving ahead
Snapshots ==
    {<<EnhancedTrack(TrackParked)>>,
     <<EnhancedTrack(TrackMoveable), EnhancedTrack(TrackAlongside)>>}

InitVotes ==
    /\ m_parameters = VehicleParameters
    /\ m_sensorStates = [s \in 0..(Count - 1) |-> DefaultSensorUpdateState]
    /\ \E kept \in Snapshots, votes \in VoteLevels :
           m_tracks = SnapshotWithVotes(kept, votes)
    /\ m_tracksTimestamp_us = 0
    /\ m_motionState = DefaultMotionState
    /\ m_hasExternalMotionState = FALSE
    /\ m_odometry = DefaultOdometryEstimate
    /\ m_lastOdometry = DefaultOdometryEstimate
    /\ output = EmptyDetections
    /\ outputLong = EmptyDetections
    /\ tracksOutput = EmptyTracks
    /\ call = NoCall
    /\ ncalls = 0
    /\ NoFusedRadarMapping
    /\ NoRadarVirtualSensorMapping
    /\ NoReaders

\* the calls made on the running pipeline: frames at timestamp 0, the motion states
\* and the track frames
NextVotes ==
    \/ \E m \in MotionInputs : updateVehicleState(m)
    \/ \E in \in {i \in RawCornerInputs : i.header.timestamp_us = 0} :
          processCornerDetections(FrontLeft, 0, in)
    \/ \E in \in {i \in RawFrontInputs : i.header.timestamp_us = 0} :
          processFrontDetections(0, in)
    \/ \E in \in RawTrackInputs : processTrackFusion(0, in)

SpecVotes == InitVotes /\ [][NextVotes]_vars

\* a sensor index past the end of SensorIndex, as a corner stream line may carry it
StraySensor == Count + 1

\* the sensor indices a corner stream offers
StreamSensors == {FrontLeft, FrontShort, StraySensor}

\* the corner frames of a stream: returns that determine the velocity
StreamCornerInputs ==
    {[header |-> Header(t), returns |-> Returns(kCornerReturnCount, ReturnAhead, ReturnAbeam)] :
        t \in Times}

\* the front frames of a stream: the same returns in the short half
StreamFrontInputs ==
    {[header |-> Header(t),
      returns |-> Returns(kCornerReturnCount, ReturnAhead, ReturnAbeam)
                     \o Returns(kCornerReturnCount, ReturnStill, NullReturn)] : t \in Times}

\* the track frame of a stream: parked tracks after an Invalid slot
StreamTrackInputs == {[slots |-> Slots(TrackInvalid, TrackParked)]}

\* playback: an initialized pipeline fed corner frames of any sensor index the stream
\* carries, front frames and track frames
NextStream ==
    \/ initialize(VehicleParameters)
    \/ \E sensor \in StreamSensors, in \in StreamCornerInputs :
          processCornerDetections(sensor, in.header.timestamp_us, in)
    \/ \E in \in StreamFrontInputs : processFrontDetections(in.header.timestamp_us, in)
    \/ \E in \in StreamTrackInputs : processTrackFusion(0, in)

SpecStream == Init /\ [][NextStream]_vars

(***************************************************************************)
(* The occupancy grid on its own: built with any of the settings, then     *)
(* updated, reset and rebuilt.                                             *)
(***************************************************************************)
\* FusedRadarMapping::occupiedCells()
occupiedCells == occupiedCellsFrom(0, m_logOdds, m_settings, m_gridSize)

\* FusedRadarMapping::update(points)
FusedRadarMapping_update(points) ==
    /\ ncalls < MaxCalls
    /\ UNCHANGED <<virtualRing, readers>>
    /\ m_logOdds' = updateFrom(1, points, m_logOdds, m_settings, m_gridSize)
    /\ call' = [NoCall EXCEPT !.op = "FusedRadarMapping::update", !.input = points]
    /\ ncalls' = ncalls + 1
    /\ UNCHANGED <<pipeline, outputs, m_settings, m_gridSize>>

\* FusedRadarMapping::reset()
FusedRadarMapping_reset ==
    /\ ncalls < MaxCalls
    /\ UNCHANGED <<virtualRing, readers>>
    /\ m_logOdds' = [k \in DOMAIN m_logOdds |-> 0]
    /\ call' = [NoCall EXCEPT !.op = "FusedRadarMapping::reset", !.occupiedBefore = Len(occupiedCells)]
    /\ ncalls' = ncalls + 1
    /\ UNCHANGED <<pipeline, outputs, m_settings, m_gridSize>>

\* FusedRadarMapping::applySettings(settings)
FusedRadarMapping_applySettings(settings) ==
    /\ ncalls < MaxCalls
    /\ UNCHANGED <<virtualRing, readers>>
    /\ m_settings' = settings
    /\ m_gridSize' = gridSizeOf(settings)
    /\ m_logOdds' = initializeGrid(settings)
    /\ call' = [NoCall EXCEPT !.op = "FusedRadarMapping::applySettings", !.input = settings]
    /\ ncalls' = ncalls + 1
    /\ UNCHANGED <<pipeline, outputs>>

InitMapping ==
    /\ PipelineConstructed
    /\ \E settings \in MapSettings : FusedRadarMapping(settings)
    /\ NoRadarVirtualSensorMapping
    /\ NoReaders

NextMapping ==
    \/ \E points \in PointClouds : FusedRadarMapping_update(points)
    \/ FusedRadarMapping_reset
    \/ \E settings \in MapSettings : FusedRadarMapping_applySettings(settings)

SpecMapping == InitMapping /\ [][NextMapping]_vars

(***************************************************************************)
(* The virtual ring on its own.                                            *)
(***************************************************************************)
\* ring(f) and segments(f): the length of segment i
segmentLengthUnclamped(i, fallbackRange) == Min(m_segmentEndDist[i], fallbackRange)

segmentLength(i, fallbackRange) ==
    Max(Min(m_segmentEndDist[i], fallbackRange), m_segmentStartDist[i])

\* center + direction * length
alongSegment(i, distance) ==
    <<m_vehicleCenter[1] + RoundDiv(m_segmentDirections[i][1] * distance, 1000),
      m_vehicleCenter[2] + RoundDiv(m_segmentDirections[i][2] * distance, 1000)>>

\* RadarVirtualSensorMapping::ring(fallbackRange)
ringWhateverRange(fallbackRange) ==
    IF ~m_ready THEN <<>>
    ELSE [i \in 1..m_segmentCount |-> alongSegment(i, segmentLength(i, fallbackRange))]

ring(fallbackRange) ==
    IF ~m_ready \/ fallbackRange <= 0 THEN <<>>
    ELSE [i \in 1..m_segmentCount |-> alongSegment(i, segmentLength(i, fallbackRange))]

\* RadarVirtualSensorMapping::segments(fallbackRange)
segments(fallbackRange) ==
    IF ~m_ready \/ fallbackRange <= 0 THEN <<>>
    ELSE [i \in 1..m_segmentCount |->
            [start |-> alongSegment(i, m_segmentStartDist[i]),
             end |-> alongSegment(i, segmentLength(i, fallbackRange))]]

\* RadarVirtualSensorMapping::segmentCount()
segmentCount == m_segmentCount

\* setSegmentCount(count): the early return is not taken
segmentCountChangesAlways(clamped) == TRUE

segmentCountChanges(clamped) ==
    ~(clamped = m_segmentCount /\ m_segmentDirections # <<>>)

\* setSegmentCount(count): std::max<std::size_t>(3U, count)
clampedAtLeastOne(count) == Max(1, count)

clampedCount(count) == Max(3, count)

\* RadarVirtualSensorMapping::setSegmentCount(count)
setSegmentCount(count) ==
    /\ ncalls < MaxCalls
    /\ ncalls' = ncalls + 1
    /\ UNCHANGED <<pipeline, outputs, grid, readers>>
    /\ LET clamped == clampedCount(count)
       IN  IF ~segmentCountChanges(clamped)
           THEN /\ call' = [NoCall EXCEPT !.op = "setSegmentCount", !.input = count,
                                          !.ret = FALSE]
                /\ UNCHANGED virtualRing
           ELSE /\ call' = [NoCall EXCEPT !.op = "setSegmentCount", !.input = count,
                                          !.ret = TRUE]
                /\ m_segmentCount' = clamped
                /\ m_segmentDirections' = rebuildSegments(clamped)
                /\ m_segmentEndDist' = assign(clamped, Infinity)
                /\ IF Len(m_vehicleContour) >= 3
                   THEN /\ m_vehicleCenter' = centerOf(m_vehicleContour)
                        /\ m_segmentStartDist' =
                               startDistances(m_vehicleContour, rebuildSegments(clamped))
                        /\ m_ready' = TRUE
                   ELSE /\ m_segmentStartDist' = assign(clamped, 0)
                        /\ m_ready' = FALSE
                        /\ UNCHANGED m_vehicleCenter
                /\ UNCHANGED m_vehicleContour

\* RadarVirtualSensorMapping::setVehicleContour(contour)
setVehicleContour(contour) ==
    /\ ncalls < MaxCalls
    /\ ncalls' = ncalls + 1
    /\ call' = [NoCall EXCEPT !.op = "setVehicleContour", !.input = contour]
    /\ UNCHANGED <<pipeline, outputs, grid, readers>>
    /\ IF Len(contour) < 3
       THEN UNCHANGED virtualRing
       ELSE /\ m_vehicleContour' = contour
            /\ m_vehicleCenter' = centerOf(contour)
            /\ m_segmentStartDist' = startDistances(contour, m_segmentDirections)
            /\ m_ready' = TRUE
            /\ UNCHANGED <<m_segmentCount, m_segmentDirections, m_segmentEndDist>>

\* RadarVirtualSensorMapping::update(detections, trackFootprints)
RadarVirtualSensorMapping_update(detections, trackFootprints) ==
    /\ ncalls < MaxCalls
    /\ ncalls' = ncalls + 1
    /\ call' = [NoCall EXCEPT !.op = "RadarVirtualSensorMapping::update",
                              !.input = [detections |-> detections,
                                         trackFootprints |-> trackFootprints]]
    /\ \E endDist \in {updatedEndDistances(detections, trackFootprints, m_vehicleCenter,
                                            m_segmentDirections, m_segmentStartDist,
                                            m_ready)} :
           m_segmentEndDist' = endDist
    /\ UNCHANGED <<pipeline, outputs, grid, readers, m_vehicleContour, m_vehicleCenter,
                   m_segmentCount, m_segmentDirections, m_segmentStartDist, m_ready>>

\* RadarVirtualSensorMapping::reset()
RadarVirtualSensorMapping_reset ==
    /\ ncalls < MaxCalls
    /\ ncalls' = ncalls + 1
    /\ call' = [NoCall EXCEPT !.op = "RadarVirtualSensorMapping::reset"]
    /\ m_segmentEndDist' = assign(m_segmentCount, Infinity)
    /\ UNCHANGED <<pipeline, outputs, grid, readers, m_vehicleContour, m_vehicleCenter,
                   m_segmentCount, m_segmentDirections, m_segmentStartDist, m_ready>>

\* the segment counts asked for: below the minimum, the minimum, four, and the
\* default
SegmentCounts == {1, 3, 4, kDefaultSegmentCount}

\* vehicle contours: two points only, a two-metre square, a four-metre square
ContourShort == << <<-10, -10>>, <<10, -10>> >>
ContourSquare == << <<-10, -10>>, <<10, -10>>, <<10, 10>>, <<-10, 10>> >>
ContourWide == << <<-20, -20>>, <<20, -20>>, <<20, 20>>, <<-20, 20>> >>
Contours == {ContourShort, ContourSquare, ContourWide}

\* a track footprint ahead of the vehicle, and the frames the ring is updated with:
\* detections at the centre, inside the small contour and outside it
TrackFootprint == << <<25, -5>>, <<35, -5>>, <<35, 5>>, <<25, 5>> >>
RingFrames ==
    {[detections |-> << <<15, 5>> >>, trackFootprints |-> <<>>],
     [detections |-> <<>>, trackFootprints |-> <<TrackFootprint>>],
     [detections |-> << <<0, 0>>, <<5, 5>>, <<-5, -30>>, <<-3, -40>> >>,
      trackFootprints |-> <<TrackFootprint>>]}

\* the fallback ranges ring and segments are queried with
FallbackRanges == {-5, 0, 5, 50, Infinity}

InitRing ==
    /\ PipelineConstructed
    /\ NoFusedRadarMapping
    /\ RadarVirtualSensorMapping
    /\ NoReaders

NextRing ==
    \/ \E count \in SegmentCounts : setSegmentCount(count)
    \/ \E contour \in Contours : setVehicleContour(contour)
    \/ \E scan \in RingFrames :
           RadarVirtualSensorMapping_update(scan.detections, scan.trackFootprints)
    \/ RadarVirtualSensorMapping_reset

SpecRing == InitRing /\ [][NextRing]_vars

(***************************************************************************)
(* The playback on its own: constructed on two input files, a corner file  *)
(* and a track file, initialized and read to the end.  The files are       *)
(* finite, so a behaviour needs no bound on the number of readNextFrame    *)
(* calls; only the calls of initialize are counted.                        *)
(***************************************************************************)
\* RadarPlayback(settings)
RadarPlayback(inputFiles) ==
    /\ settings_inputFiles = inputFiles
    /\ impl_initialized = FALSE
    /\ impl_streams = <<>>
    /\ impl_pipeline = <<>>
    /\ frame = RadarFrame

\* RadarPlayback::initialize(); configLoads is the result of vehicleConfig.load
RadarPlayback_initialize(configLoads) ==
    /\ ncalls < MaxCalls
    /\ ncalls' = ncalls + 1
    /\ UNCHANGED <<pipeline, outputs, maps, offlineReader, settings_inputFiles, frame>>
    /\ IF impl_initialized
       THEN /\ call' = [NoCall EXCEPT !.op = "RadarPlayback::initialize", !.ret = TRUE]
            /\ UNCHANGED <<impl_initialized, impl_streams, impl_pipeline>>
       ELSE IF ~configLoads
       THEN /\ call' = [NoCall EXCEPT !.op = "RadarPlayback::initialize", !.ret = FALSE]
            /\ UNCHANGED <<impl_initialized, impl_streams, impl_pipeline>>
       ELSE LET opened == SelectIndices(Len(settings_inputFiles),
                                        LAMBDA i : settings_inputFiles[i].exists)
                streams == impl_streams \o [k \in 1..Len(opened) |-> StreamState(opened[k])]
            IN  /\ impl_pipeline' = Append(impl_pipeline, [op |-> "initialize"])
                /\ impl_streams' = streams
                /\ impl_initialized' = (streams # <<>>)
                /\ call' = [NoCall EXCEPT !.op = "RadarPlayback::initialize",
                                          !.ret = (streams # <<>>)]

\* RadarPlayback::readNextFrame(frame)
RadarPlayback_readNextFrame ==
    /\ UNCHANGED <<ncalls, pipeline, outputs, maps, offlineReader, settings_inputFiles,
                   impl_initialized>>
    /\ IF ~impl_initialized
       THEN /\ call' = [NoCall EXCEPT !.op = "readNextFrame", !.ret = FALSE]
            /\ UNCHANGED <<impl_streams, impl_pipeline, frame>>
       ELSE \E filled \in {f \in [1..Len(impl_streams) ->
                                     UNION {fillStream(impl_streams[i],
                                                       settings_inputFiles[impl_streams[i].input].lines) :
                                                i \in 1..Len(impl_streams)}] :
                              \A i \in 1..Len(impl_streams) :
                                 f[i] \in fillStream(impl_streams[i],
                                                     settings_inputFiles[impl_streams[i].input].lines)} :
            LET earliest == earliestTimestamp(filled)
                due == SelectIndices(Len(filled),
                                     LAMBDA i : filled[i].hasPending
                                                   /\ filled[i].timestampUs = earliest)
                merged == [k \in 1..Len(due) |->
                              [stream |-> due[k],
                               line |-> filled[due[k]].position,
                               timestamp_us |-> filled[due[k]].timestampUs,
                               op |-> pipelineCallOf(
                                          settings_inputFiles[filled[due[k]].input].type)]]
            IN  IF earliest = Uint64Max
                THEN /\ impl_streams' = filled
                     /\ frame' = RadarFrame
                     /\ call' = [NoCall EXCEPT !.op = "readNextFrame", !.ret = FALSE]
                     /\ UNCHANGED impl_pipeline
                ELSE /\ impl_streams' = [i \in 1..Len(filled) |->
                                            IF filled[i].hasPending
                                                  /\ filled[i].timestampUs = earliest
                                            THEN [filled[i] EXCEPT !.hasPending = FALSE]
                                            ELSE filled[i]]
                     /\ impl_pipeline' = impl_pipeline \o merged
                     /\ frame' = [timestampUs |-> earliest, merged |-> merged]
                     /\ call' = [NoCall EXCEPT !.op = "readNextFrame", !.ret = TRUE]

\* number of lines of a file of the model
MaxLines == 2

\* the sequences of at most n elements of S
RECURSIVE SeqsUpTo(_, _)
SeqsUpTo(S, n) ==
    IF n = 0 THEN {<<>>}
    ELSE LET shorter == SeqsUpTo(S, n - 1)
         IN  shorter \cup {Append(q, x) : q \in {r \in shorter : Len(r) = n - 1}, x \in S}

\* the lines a file is made of: frames at the timestamps 1 and 2, a frame with a
\* negative number in the timestamp column, a line that cannot be tokenized
FileLines == {Record(1), Record(2), Record(-1), Garbage}

\* the contents of a file: any lines, or a frame around an empty or a truncated line
FileContents ==
    SeqsUpTo(FileLines, MaxLines)
        \cup {<<Empty, Record(1)>>, <<Record(1), Truncated(2)>>, <<Truncated(2), Record(1)>>}

\* an input file of the given stream type: missing, or with any of the contents
InputFiles(type) ==
    {[type |-> type, exists |-> FALSE, lines |-> <<>>]}
        \cup {[type |-> type, exists |-> TRUE, lines |-> lines] : lines \in FileContents}

InitPlayback ==
    /\ PipelineConstructed
    /\ NoFusedRadarMapping
    /\ NoRadarVirtualSensorMapping
    /\ NoOfflineRadarDataReader
    /\ \E corner \in InputFiles("CornerDetections"), tracks \in InputFiles("Tracks") :
           RadarPlayback(<<corner, tracks>>)

NextPlayback ==
    \/ \E configLoads \in BOOLEAN : RadarPlayback_initialize(configLoads)
    \/ RadarPlayback_readNextFrame

SpecPlayback == InitPlayback /\ [][NextPlayback]_vars

(***************************************************************************)
(* The offline reader on its own: constructed on two configured files,     *)
(* each of which may be missing, configured and read to the end.           *)
(***************************************************************************)
\* OfflineRadarDataReader(dataDirectory, dataFiles); found[i] tells whether
\* findRadarFile resolves dataFiles[i], and to which lines
OfflineRadarDataReader(found, dataFiles) ==
    LET resolved == SelectIndices(Len(dataFiles), LAMBDA i : found[i].exists)
    IN  /\ m_dataDirectory = found
        /\ m_files = dataFiles
        /\ m_sensors = [k \in 1..Len(resolved) |->
                           TextRadarSensor(dataFiles[resolved[k]], found[resolved[k]].lines)]
        /\ m_frames = [k \in 1..Len(resolved) |-> SourceFrame]
        /\ m_lastFrameSources = <<>>
        /\ destination = <<>>
        /\ scanTimestampUs = 0

\* OfflineRadarDataReader::configure(maxRangeMeters)
OfflineRadarDataReader_configure(maxRangeMeters) ==
    /\ m_sensors' = [k \in 1..Len(m_sensors) |->
                        [m_sensors[k] EXCEPT !.maxRange = maxRangeMeters]]
    /\ call' = [NoCall EXCEPT !.op = "configure", !.input = maxRangeMeters,
                              !.ret = (m_sensors # <<>>)]
    /\ UNCHANGED <<ncalls, pipeline, outputs, maps, playback, m_dataDirectory, m_files,
                   m_frames, m_lastFrameSources, destination, scanTimestampUs>>

\* OfflineRadarDataReader::readNextScan(destination, timestampUs)
OfflineRadarDataReader_readNextScan ==
    /\ UNCHANGED <<ncalls, pipeline, outputs, maps, playback, m_dataDirectory, m_files>>
    /\ IF m_sensors = <<>>
       THEN /\ call' = [NoCall EXCEPT !.op = "readNextScan", !.ret = FALSE]
            /\ UNCHANGED <<m_sensors, m_frames, m_lastFrameSources, destination,
                           scanTimestampUs>>
       ELSE LET prepared == prepareFrames(m_sensors, m_frames)
                frames == prepared.frames
                bestTimestamp ==
                    MinOf({Uint64Max} \cup {frames[i].timestampUs :
                                               i \in {j \in 1..Len(frames) : frames[j].ready}})
                merged == SelectIndices(Len(frames),
                                        LAMBDA i : frames[i].ready
                                                      /\ frames[i].timestampUs = bestTimestamp)
            IN  /\ m_sensors' = prepared.sensors
                /\ IF ~prepared.anyReady \/ bestTimestamp = Uint64Max
                   THEN /\ m_frames' = frames
                        /\ call' = [NoCall EXCEPT !.op = "readNextScan", !.ret = FALSE]
                        /\ UNCHANGED <<m_lastFrameSources, destination, scanTimestampUs>>
                   ELSE /\ destination' = pointsOf(frames, merged)
                        /\ scanTimestampUs' = bestTimestamp
                        /\ m_frames' = [i \in 1..Len(frames) |->
                                           IF frames[i].ready
                                                 /\ frames[i].timestampUs = bestTimestamp
                                           THEN [frames[i] EXCEPT !.points = <<>>,
                                                                  !.ready = FALSE]
                                           ELSE frames[i]]
                        /\ m_lastFrameSources' =
                               [k \in 1..Len(merged) |-> m_files[merged[k]]]
                        /\ call' = [NoCall EXCEPT !.op = "readNextScan", !.ret = TRUE]

\* the configured file names, as in the reader test
DataFiles == <<"a.txt", "b.txt">>

\* the lines of a scan file: scans at the timestamps 1 and 2 and a line that neither
\* parser accepts; and the contents of a file
ScanLines == {Record(1), Record(2), Garbage}
ScanFileContents == SeqsUpTo(ScanLines, MaxLines) \cup {<<Empty, Record(1)>>}

\* what findRadarFile finds for a file name: nothing, or a file with any contents
FoundFiles ==
    {[exists |-> FALSE, lines |-> <<>>]}
        \cup {[exists |-> TRUE, lines |-> lines] : lines \in ScanFileContents}

\* the maximum range the reader is configured with, as in the reader test
MaxRanges == {120}

InitReader ==
    /\ PipelineConstructed
    /\ NoFusedRadarMapping
    /\ NoRadarVirtualSensorMapping
    /\ NoRadarPlayback
    /\ \E a \in FoundFiles, b \in FoundFiles : OfflineRadarDataReader(<<a, b>>, DataFiles)

NextReader ==
    \/ \E maxRangeMeters \in MaxRanges : OfflineRadarDataReader_configure(maxRangeMeters)
    \/ OfflineRadarDataReader_readNextScan

SpecReader == InitReader /\ [][NextReader]_vars

(***************************************************************************)
(* The time alignment of a detection frame on its own: the observation     *)
(* time and the prediction interval for any frame timestamp, hardware      *)
(* delay and snapshot timestamp, the extremes of std::uint64_t included.   *)
(***************************************************************************)
\* the timestamps and delays offered, in microseconds
Stamps == {0, 1, 2, Uint64Max - 1, Uint64Max}

\* processCornerDetections and associateDetections, the time arithmetic only:
\* observationTime from timestamp_us and delayUs, dt from it and m_tracksTimestamp_us
alignFrame(timestamp_us, delayUs, tracksTimestamp_us) ==
    /\ ncalls < MaxCalls
    /\ ncalls' = ncalls + 1
    /\ call' = [NoCall EXCEPT
                   !.op = "alignFrame",
                   !.timestamp_us = timestamp_us,
                   !.input = [delayUs |-> delayUs,
                              tracksTimestamp_us |-> tracksTimestamp_us,
                              observationTime |-> ObservationTime(timestamp_us, delayUs),
                              dt |-> PredictionInterval(
                                         ObservationTime(timestamp_us, delayUs),
                                         tracksTimestamp_us)]]
    /\ UNCHANGED <<pipeline, outputs, maps, readers>>

NextAlign ==
    \E timestamp_us \in Stamps, delayUs \in Stamps, tracksTimestamp_us \in Stamps :
        alignFrame(timestamp_us, delayUs, tracksTimestamp_us)

SpecAlign == Init /\ [][NextAlign]_vars

(***************************************************************************)
(* Properties.                                                             *)
(***************************************************************************)
IsDetectionCall(c) == c.op \in {"processCornerDetections", "processFrontDetections"}

\* a detection frame that the pipeline processed (it was initialized)
Processed(c) == IsDetectionCall(c) /\ c.live # <<>>

NonLive(c) == \E i \in 1..Len(c.live) : ~c.live[i]

\* the sensors whose liveness a detection call updates, in the order of c.live
SensorsOf(c) == IF c.op = "processCornerDetections" THEN <<c.sensor>>
                ELSE <<FrontShort, FrontLong>>

\* the detections a detection call wrote: container contents after the call
Emitted(c, out, outLong) ==
    IF c.op = "processCornerDetections" THEN {out.detections[i] : i \in 1..Len(out.detections)}
    ELSE {out.detections[i] : i \in 1..Len(out.detections)}
             \cup {outLong.detections[i] : i \in 1..Len(outLong.detections)}

\* the liveness rule for sensor s on a frame with header timestamp t, reported `live`
LivenessRule(s, t, live) ==
    IF ~m_sensorStates[s].initialized
    THEN /\ live
         /\ m_sensorStates'[s] =
                [initialized |-> TRUE, timestamp_us |-> t, numConsecutiveInvalid |-> 0]
    ELSE /\ live <=> t > m_sensorStates[s].timestamp_us
         /\ m_sensorStates'[s].initialized
         /\ live => /\ m_sensorStates'[s].timestamp_us = t
                    /\ m_sensorStates'[s].numConsecutiveInvalid = 0
         /\ ~live => /\ m_sensorStates'[s].timestamp_us = m_sensorStates[s].timestamp_us
                     /\ m_sensorStates'[s].numConsecutiveInvalid =
                            m_sensorStates[s].numConsecutiveInvalid + 1
         /\ m_sensorStates'[s].timestamp_us >= m_sensorStates[s].timestamp_us

\* C1: per sensor, the first frame is live and records its header timestamp with count
\* 0; a later frame is live iff its header timestamp is strictly greater than the
\* recorded one, which then becomes that value with the count reset to 0; otherwise the
\* frame is non-live, the recorded timestamp is unchanged and the count grows by exactly
\* 1; the recorded timestamp never decreases, and a frame touches no sensor but its own.
C1_SensorLiveness ==
    [][ IF Processed(call')
        THEN /\ \A k \in 1..Len(call'.live) :
                   LivenessRule(SensorsOf(call')[k], call'.input.header.timestamp_us,
                                call'.live[k])
             /\ \A s \in 0..(Count - 1) :
                   (\A k \in 1..Len(call'.live) : SensorsOf(call')[k] # s)
                       => m_sensorStates'[s] = m_sensorStates[s]
        ELSE m_sensorStates' = m_sensorStates ]_vars

\* a third frame of FrontLeft, the second and third with timestamps not above the first
C1_Witness ==
    /\ call.op = "processCornerDetections"
    /\ call.live = <<FALSE>>
    /\ call.input.header.timestamp_us = 0
    /\ m_sensorStates[FrontLeft].timestamp_us = 1
    /\ m_sensorStates[FrontLeft].numConsecutiveInvalid = 2

\* C2: a detection call on a pipeline that is not initialized returns false and changes
\* neither the caller's containers nor any pipeline state.
C2_RequiresInitialization ==
    [][ (IsDetectionCall(call') /\ m_parameters = NullParameters)
            => /\ call'.ret = FALSE
               /\ pipeline' = pipeline
               /\ outputs' = outputs ]_vars

\* a front frame offered to a pipeline without parameters whose container holds the
\* detections of an earlier frame
C2_Witness ==
    /\ call.op = "processFrontDetections"
    /\ m_parameters = NullParameters
    /\ output.detections # <<>>
    /\ m_sensorStates[FrontLeft].initialized

\* the slots of a raw track frame whose status is not Invalid
KeptSlots(slots) == {i \in 1..kTrackCount : slots[i].status # Invalid}

\* the slot that the j-th kept track comes from
SlotOf(slots, j) ==
    CHOOSE i \in KeptSlots(slots) : Cardinality({k \in KeptSlots(slots) : k <= i}) = j

\* C3: after processTrackFusion(t, raw) the emitted tracks and the track snapshot are
\* exactly the raw entries whose status is not Invalid, in slot order and of equal
\* length, every moving_votes is 0 and tracks_timestamp_us is t.
C3_TrackSnapshotReplaced ==
    call.op = "processTrackFusion" =>
        LET slots == call.input.slots
            n == Cardinality(KeptSlots(slots))
        IN  /\ Len(tracksOutput.tracks) = n
            /\ Len(m_tracks) = n
            /\ tracksOutput.timestamp_us = call.timestamp_us
            /\ m_tracksTimestamp_us = call.timestamp_us
            /\ \A j \in 1..n :
                  LET r == slots[SlotOf(slots, j)]
                  IN  /\ tracksOutput.tracks[j].id = r.id
                      /\ tracksOutput.tracks[j].status = r.status
                      /\ tracksOutput.tracks[j].isMoveable = (r.moveableFlag # 0)
                      /\ tracksOutput.tracks[j].vcsLongitudinalPosition
                             = r.vcsLongitudinalPosition
                      /\ tracksOutput.tracks[j].vcsLateralPosition = r.vcsLateralPosition
                      /\ m_tracks[j].position
                             = <<r.vcsLongitudinalPosition, r.vcsLateralPosition>>
                      /\ m_tracks[j].velocity
                             = <<r.vcsLongitudinalVelocity, r.vcsLateralVelocity>>
                      /\ m_tracks[j].acceleration
                             = <<r.vcsLongitudinalAcceleration, r.vcsLateralAcceleration>>
                      /\ m_tracks[j].length = r.length
                      /\ m_tracks[j].width = r.width
                      /\ m_tracks[j].height = r.height
                      /\ m_tracks[j].heading = r.vcsHeading
                      /\ m_tracks[j].headingRate = r.vcsHeadingRate
                      /\ m_tracks[j].isMoveable = (r.moveableFlag # 0)
                      /\ m_tracks[j].isStationary = (r.stationaryFlag # 0)
                      /\ m_tracks[j].movingVotes = 0

\* a track frame with a leading Invalid slot, arriving after a detection was associated
\* with a track that took its vote
C3_Witness ==
    /\ call.op = "processTrackFusion"
    /\ call.input.slots[1].status = Invalid
    /\ Len(m_tracks) >= 1
    /\ \E i \in 1..Len(output.detections) :
          /\ output.detections[i].fusedTrackIndex = 0
          /\ output.detections[i].isMoveable = 0

\* a track with its movingVotes replaced
WithVotes(track, v) == [track EXCEPT !.movingVotes = v]

\* C4 as claimed: a detection call leaves the whole track snapshot, moving_votes
\* included, and tracks_timestamp_us as they were.
C4_SnapshotUntouched ==
    [][ IsDetectionCall(call')
            => /\ m_tracks' = m_tracks
               /\ m_tracksTimestamp_us' = m_tracksTimestamp_us ]_vars

\* C4, amended: a detection call leaves tracks_timestamp_us, the number and order of
\* the tracks and every field of every track except moving_votes as they were;
\* moving_votes changes only on a track whose moveable flag is clear and with which a
\* detection of this frame was associated.
C4_SnapshotUntouchedButVotes ==
    [][ IsDetectionCall(call')
            => /\ m_tracksTimestamp_us' = m_tracksTimestamp_us
               /\ Len(m_tracks') = Len(m_tracks)
               /\ \A i \in 1..Len(m_tracks) :
                     /\ WithVotes(m_tracks'[i], 0) = WithVotes(m_tracks[i], 0)
                     /\ m_tracks'[i].movingVotes # m_tracks[i].movingVotes
                           => /\ ~m_tracks[i].isMoveable
                              /\ \E d \in Emitted(call', output', outputLong') :
                                    d.fusedTrackIndex = i - 1 ]_vars

\* a corner frame whose detection voted on a track
C4_Witness ==
    /\ call.op = "processCornerDetections"
    /\ \E i \in 1..Len(m_tracks) : m_tracks[i].movingVotes # 0

\* C5: every emitted detection has is_static = 1 iff is_stationary = 1 and
\* is_moveable = 0, associated or not.
C5_StaticIffStationaryNotMoveable ==
    \A d \in Emitted([op |-> "processFrontDetections"], output, outputLong) :
        (d.isStatic = 1) <=> (d.isStationary = 1 /\ d.isMoveable = 0)

\* a stationary detection associated with a moveable track, next to one not associated
C5_Witness ==
    /\ Processed(call)
    /\ \E i \in 1..Len(output.detections) :
          /\ output.detections[i].fusedTrackIndex >= 0
          /\ output.detections[i].isStationary = 1
          /\ output.detections[i].isMoveable = 1
    /\ \E i \in 1..Len(output.detections) : output.detections[i].fusedTrackIndex = -1

\* C6: every detection emitted by a frame has fused_track_index -1 or an index into the
\* current track snapshot (so at most kTrackCount - 1); it is -1, and is_moveable 0,
\* when the snapshot is empty or the detection has neither Valid nor SuperResolution.
C6_FusedTrackIndexInSnapshot ==
    Processed(call) =>
        \A d \in Emitted(call, output, outputLong) :
            /\ \/ d.fusedTrackIndex = -1
               \/ /\ 0 <= d.fusedTrackIndex
                  /\ d.fusedTrackIndex < Len(m_tracks)
                  /\ d.fusedTrackIndex <= kTrackCount - 1
            /\ (m_tracks = <<>> \/ ~HasValidMask(d.flags))
                  => (d.fusedTrackIndex = -1 /\ d.isMoveable = 0)

\* a frame against a one-track snapshot taken from the second raw slot: one detection
\* associated with index 0, one empty slot
C6_Witness ==
    /\ call.op = "processCornerDetections"
    /\ Len(m_tracks) = 1
    /\ Len(tracksOutput.tracks) = 1
    /\ Len(output.detections) >= 2
    /\ output.detections[1].fusedTrackIndex = 0
    /\ output.detections[2].flags = 0
    /\ output.detections[2].fusedTrackIndex = -1

\* C7: once updateVehicleState was called, no detection frame feeds the estimator or
\* changes the motion state or the latest odometry, and the motion state is the state
\* supplied last; before that, every processed corner frame feeds its detections and
\* every processed front frame feeds its short half, and only that.
C7_OdometryOnlyWithoutExternalState ==
    [][ /\ m_hasExternalMotionState => m_hasExternalMotionState'
        /\ call'.op = "updateVehicleState"
              => (m_hasExternalMotionState' /\ m_motionState' = call'.input)
        /\ (m_hasExternalMotionState /\ call'.op # "updateVehicleState")
              => /\ call'.fed = <<>>
                 /\ UNCHANGED <<m_motionState, m_lastOdometry, m_odometry>>
        /\ (~m_hasExternalMotionState /\ Processed(call'))
              => call'.fed = <<output'>> ]_vars

\* a live front frame with two usable short returns, under an external motion state
C7_Witness ==
    /\ m_hasExternalMotionState
    /\ call.op = "processFrontDetections"
    /\ call.live = <<TRUE, TRUE>>
    /\ Len(output.detections) >= 2
    /\ HasValidMask(output.detections[1].flags)
    /\ HasValidMask(output.detections[2].flags)
    /\ call.fed = <<>>
    /\ m_motionState.vLon_mps = 2
    /\ ~m_lastOdometry.valid

\* C8 as claimed: with no external motion state, a live frame on which the estimator
\* fails returns valid_odometry = false, and latestOdometry reports valid = false.
C8_UnderdeterminedReportsInvalid ==
    (Processed(call) /\ ~NonLive(call) /\ call.fed # <<>> /\ ~call.estimated)
        => (call.ret = FALSE /\ m_lastOdometry.valid = FALSE)

\* C9: with no external motion state, a detection frame on which the estimator fails
\* leaves the motion state as it was, and one on which it succeeds sets (vLon, vLat,
\* yawRate) to the new estimate, with yawRate 0; no detection call changes a variance.
C9_MotionStateFollowsEstimate ==
    [][ /\ (Processed(call') /\ ~m_hasExternalMotionState /\ ~call'.estimated)
              => m_motionState' = m_motionState
        /\ (Processed(call') /\ ~m_hasExternalMotionState /\ call'.estimated)
              => /\ m_odometry'.valid
                 /\ m_odometry'.timestamp_us = call'.input.header.timestamp_us
                 /\ m_motionState'.vLon_mps = m_odometry'.vLon_mps
                 /\ m_motionState'.vLat_mps = m_odometry'.vLat_mps
                 /\ m_motionState'.yawRate_rps = 0
        /\ IsDetectionCall(call')
              => /\ m_motionState'.vLonVariance = m_motionState.vLonVariance
                 /\ m_motionState'.vLatVariance = m_motionState.vLatVariance
                 /\ m_motionState'.yawRateVariance = m_motionState.yawRateVariance ]_vars

\* an estimate of 2 m/s ahead fed back, followed by a frame on which the estimator fails
C9_Witness ==
    /\ Processed(call)
    /\ ~m_hasExternalMotionState
    /\ call.fed # <<>>
    /\ ~call.estimated
    /\ m_motionState.vLon_mps = 2
    /\ m_motionState.vLat_mps = 0
    /\ m_lastOdometry.valid

\* C10 as claimed: a non-live detection frame leaves the motion state, the latest
\* odometry and every track's moving_votes as they were.
C10_NonLiveFrameChangesNothing ==
    [][ (Processed(call') /\ NonLive(call'))
            => /\ m_motionState' = m_motionState
               /\ m_lastOdometry' = m_lastOdometry
               /\ Len(m_tracks') = Len(m_tracks)
               /\ \A i \in 1..Len(m_tracks) :
                     m_tracks'[i].movingVotes = m_tracks[i].movingVotes ]_vars

\* C10, amended: a non-live detection frame does not advance the liveness timestamp and
\* returns valid_odometry = false, and is otherwise processed in full: with no external
\* motion state its detections are fed to the estimator, the motion state and the
\* latest odometry become the new estimate when the estimator succeeds and stay as they
\* were when it fails (as they do under an external motion state), and moving_votes
\* changes only on not-moveable tracks its detections are associated with.
C10_NonLiveFrameProcessedInFull ==
    [][ (Processed(call') /\ NonLive(call'))
            => /\ call'.ret = FALSE
               /\ \A k \in 1..Len(call'.live) :
                     m_sensorStates'[SensorsOf(call')[k]].timestamp_us
                         = m_sensorStates[SensorsOf(call')[k]].timestamp_us
               /\ m_hasExternalMotionState
                     => UNCHANGED <<m_motionState, m_lastOdometry>>
               /\ ~m_hasExternalMotionState
                     => /\ call'.fed = <<output'>>
                        /\ call'.estimated
                              => /\ m_lastOdometry' = m_odometry'
                                 /\ m_lastOdometry'.valid
                                 /\ m_motionState'.vLon_mps = m_lastOdometry'.vLon_mps
                                 /\ m_motionState'.vLat_mps = m_lastOdometry'.vLat_mps
                                 /\ m_motionState'.yawRate_rps = m_lastOdometry'.yawRate_rps
                        /\ ~call'.estimated
                              => UNCHANGED <<m_motionState, m_lastOdometry>>
               /\ Len(m_tracks') = Len(m_tracks)
               /\ \A i \in 1..Len(m_tracks) :
                     m_tracks'[i].movingVotes # m_tracks[i].movingVotes
                        => /\ ~m_tracks[i].isMoveable
                            /\ \E d \in Emitted(call', output', outputLong') :
                                  d.fusedTrackIndex = i - 1 ]_vars

\* a non-live corner frame whose estimate of 2 m/s became the motion state
C10_Witness ==
    /\ call.op = "processCornerDetections"
    /\ call.live = <<FALSE>>
    /\ call.estimated
    /\ m_sensorStates[FrontLeft].timestamp_us = 1
    /\ m_lastOdometry.valid
    /\ m_lastOdometry.timestamp_us = 0
    /\ m_motionState.vLon_mps = 2

\* the raw fields of input slot r as they appear in the emitted detection det
CarriesReturn(det, r) ==
    /\ det.range_m = r.range_m
    /\ det.rangeRate_ms = r.rangeRate_ms
    /\ det.azimuthRaw = r.azimuthRaw
    /\ det.longitudinalOffset_m = r.longitudinalOffset_m
    /\ det.lateralOffset_m = r.lateralOffset_m
    /\ det.flags = packDetectionFlags(r.radarValidReturn, r.superResolutionDetection,
                                      r.nearTargetDetection, r.hostVehicleClutter,
                                      r.multibounceDetection)

\* C11: a non-live frame is processed like a live one: whatever the liveness, the
\* emitted containers carry the frame's header and one detection per raw slot, mapped,
\* classified against the motion state and associated against the track snapshot as
\* they were before the call; but the return value of a non-live frame is false, and a
\* front frame returns false unless FrontShort and FrontLong are both live.
C11_NonLiveFrameStillProduced ==
    [][ Processed(call')
            => /\ NonLive(call') => call'.ret = FALSE
               /\ call'.ret => (\A k \in 1..Len(call'.live) : call'.live[k])
               /\ output'.header = call'.input.header
               /\ Len(output'.detections) = kCornerReturnCount
               /\ \A i \in 1..kCornerReturnCount :
                     CarriesReturn(output'.detections[i], call'.input.returns[i])
               /\ call'.op = "processFrontDetections"
                     => /\ outputLong'.header = call'.input.header
                        /\ Len(outputLong'.detections) = kCornerReturnCount
                        /\ \A i \in 1..kCornerReturnCount :
                              CarriesReturn(outputLong'.detections[i],
                                            call'.input.returns[kCornerReturnCount + i])
               /\ call'.sensor \in SensorIndices
                     => \A i \in 1..kCornerReturnCount :
                           LET classified == ClassifyOne(output'.detections[i],
                                                 m_parameters.radarCalibrations[call'.sensor],
                                                 m_motionState)
                               det == output'.detections[i]
                           IN  /\ det.isStationary = classified.isStationary
                               /\ det.stationaryProbability = classified.stationaryProbability
                               /\ (m_tracks # <<>> /\ HasValidMask(det.flags))
                                     => det.fusedTrackIndex + 1 =
                                           BestIndex(det,
                                                     m_parameters.radarCalibrations[call'.sensor],
                                                     m_motionState, m_tracks,
                                                     [t \in 1..Len(m_tracks) |->
                                                        PredictedBox(m_tracks[t],
                                                            Max(0, call'.timestamp_us
                                                                   - m_tracksTimestamp_us))])
       ]_vars

\* a front frame that finds FrontShort not live and FrontLong live, after a valid
\* estimate: a detection of it is associated, and the call returns false
C11_Witness ==
    /\ call.op = "processFrontDetections"
    /\ call.live = <<FALSE, TRUE>>
    /\ m_lastOdometry.valid
    /\ call.ret = FALSE
    /\ Len(output.detections) >= 1
    /\ output.detections[1].fusedTrackIndex = 0

\* C12 as claimed: whatever the estimator has estimated before, processDetections on a
\* batch with fewer than 2 usable samples returns false, and the estimator's latest
\* estimate is then not valid.
C12_TooFewSamplesInvalid ==
    (/\ Processed(call)
     /\ call.sensor \in SensorIndices
     /\ call.fed # <<>>
     /\ Len(Samples(m_parameters.radarCalibrations[call.sensor], call.fed[1])) < 2)
        => (~call.estimated /\ ~m_odometry.valid)

\* C13 as claimed: no frame indexes the per-sensor liveness states or the radar
\* calibrations outside [0, Count).
C13_IndexWithinCount == call.indexed \subseteq SensorIndices

(***************************************************************************)
(* The occupancy grid.                                                     *)
(***************************************************************************)
CellIndices == DOMAIN m_logOdds

\* C14 as claimed: whatever the settings, after construction, applySettings, reset
\* and any update every cell's log-odds lies in [minLogOdds, maxLogOdds].
C14_LogOddsWithinBounds ==
    \A k \in CellIndices :
        m_settings.minLogOdds <= m_logOdds[k] /\ m_logOdds[k] <= m_settings.maxLogOdds

OutsideGrid(point) ==
    LET ix == toIndexFloor(point.x, m_settings, m_gridSize)
        iy == toIndexFloor(point.y, m_settings, m_gridSize)
    IN  ix < 0 \/ ix >= m_gridSize \/ iy < 0 \/ iy >= m_gridSize

\* C16 as claimed: with free space disabled, an update whose detections all lie outside
\* the grid window leaves every cell unchanged, under the hit model and under the
\* Gaussian model.
C16_OutsideGridIgnored ==
    [][(/\ call'.op = "FusedRadarMapping::update"
        /\ ~m_settings.enableFreespace
        /\ \A i \in 1..Len(call'.input) : OutsideGrid(call'.input[i]))
           => m_logOdds' = m_logOdds]_vars

\* update skips a point: it has neither flag, or its range (the measured range if
\* positive, else the distance from its sensor) is at most the minimum range
Skipped(point) ==
    LET dx == point.x - point.sensorLateral_m
        dy == point.y - point.sensorLongitudinal_m
    IN  \/ point.radarValid = 0 /\ point.superResolution = 0
        \/ point.range_m > 0 /\ point.range_m <= m_settings.minRange_m
        \/ point.range_m <= 0
               /\ dx * dx + dy * dy <= m_settings.minRange_m * m_settings.minRange_m

Kept(point) == ~Skipped(point)

\* the index of the cell that holds a position on the grid
CellOf(x, y) ==
    toIndexFloor(y, m_settings, m_gridSize) * m_gridSize
        + toIndexFloor(x, m_settings, m_gridSize)

\* a position is the centre of the cell that holds it
AtCellCenter(x, y) ==
    /\ cellCenter(toIndexFloor(x, m_settings, m_gridSize), m_settings, m_gridSize) = x
    /\ cellCenter(toIndexFloor(y, m_settings, m_gridSize), m_settings, m_gridSize) = y

\* C17: in update a point with neither radarValid nor superResolution, or whose range
\* is at most the minimum range, changes no cell, occupied or free: the grid after the
\* update is the grid the kept points alone produce, and unchanged if no point is kept.
\* A kept point is processed: under the hit model a stationary detection on the grid
\* raises its cell by the hit increment up to the maximum, and with free space enabled
\* the cell centred on the sensor is lowered by the miss decrement down to the minimum.
C17_SkippedPointsChangeNothing ==
    [][call'.op = "FusedRadarMapping::update" =>
        LET points == call'.input
            kept == SelectSeq(points, Kept)
        IN  /\ kept = <<>> => m_logOdds' = m_logOdds
            /\ m_logOdds' = updateFrom(1, kept, m_logOdds, m_settings, m_gridSize)
            /\ (/\ Len(kept) = 1
                /\ m_settings.radarModel = "Hits"
                /\ ~OutsideGrid(kept[1]))
                   => LET hit == CellOf(kept[1].x, kept[1].y)
                          sensor == CellOf(kept[1].sensorLateral_m,
                                           kept[1].sensorLongitudinal_m)
                      IN  /\ m_logOdds'[hit]
                                = Min(m_settings.maxLogOdds,
                                      m_logOdds[hit] + m_settings.hitIncrement)
                          /\ (/\ m_settings.enableFreespace
                              /\ ~OutsideGrid([x |-> kept[1].sensorLateral_m,
                                               y |-> kept[1].sensorLongitudinal_m])
                              /\ AtCellCenter(kept[1].sensorLateral_m,
                                              kept[1].sensorLongitudinal_m))
                                 => m_logOdds'[sensor]
                                      = Max(m_settings.minLogOdds,
                                            m_logOdds[sensor] - m_settings.missDecrement)
       ]_vars

\* an update of a point measured just above the minimum range together with a point
\* measured at the minimum range: the grid changed
C17_Witness ==
    /\ call.op = "FusedRadarMapping::update"
    /\ call.input = <<PointAhead, PointAtMinRange>>
    /\ m_settings.enableFreespace
    /\ m_settings.radarModel = "Hits"
    /\ m_logOdds[CellOf(PointAhead.x, PointAhead.y)] = m_settings.hitIncrement
    /\ m_logOdds[CellOf(PointAhead.sensorLateral_m, PointAhead.sensorLongitudinal_m)]
          = -m_settings.missDecrement

(***************************************************************************)
(* The virtual ring.                                                       *)
(***************************************************************************)
SegmentIndices == 1..m_segmentCount

\* ring and segments answer every query as a ring that is, or is not, ready
QueriesAnswered(accepted) ==
    \A f \in FallbackRanges :
        IF accepted /\ f > 0
        THEN /\ Len(ring(f)) = segmentCount
             /\ Len(segments(f)) = segmentCount
             /\ segmentCount >= 3
        ELSE /\ ring(f) = <<>>
             /\ segments(f) = <<>>

\* C18: ring(f) and segments(f) are empty iff no contour of at least 3 points has been
\* accepted so far or f <= 0, and hold exactly segmentCount() entries otherwise; a
\* setVehicleContour with fewer than 3 points changes nothing.
C18_RingAnswersIffContourAccepted ==
    /\ QueriesAnswered(FALSE)
    /\ [][LET acceptedBefore == ring(Infinity) # <<>>
              acceptedNow == /\ call'.op = "setVehicleContour"
                             /\ Len(call'.input) >= 3
          IN  /\ IF acceptedBefore \/ acceptedNow
                 THEN QueriesAnswered(TRUE)'
                 ELSE QueriesAnswered(FALSE)'
              /\ (call'.op = "setVehicleContour" /\ Len(call'.input) < 3)
                     => UNCHANGED virtualRing
         ]_vars

\* a two-point contour offered to a ready ring of three segments: it is ignored and
\* the ring still answers with three entries
C18_Witness ==
    /\ call.op = "setVehicleContour"
    /\ Len(call.input) < 3
    /\ m_segmentCount = 3
    /\ Len(ring(Infinity)) = 3
    /\ Len(segments(5)) = 3
    /\ ring(0) = <<>>

\* C19 as claimed: after any setSegmentCount(n), also with n equal to the current
\* count and after an update, every segment end distance is +infinity.
C19_EndDistancesInfinite ==
    call.op = "setSegmentCount" => \A i \in SegmentIndices : m_segmentEndDist[i] = Infinity

\* C19, amended: a setSegmentCount(n) whose clamped count max(3, n) differs from the
\* current count returns true and leaves every end distance +infinity; one whose
\* clamped count equals the current count returns false and changes nothing, so the
\* end distances of the last update stay.
C19_EndDistancesInfiniteWhenCountChanges ==
    [][call'.op = "setSegmentCount" =>
        LET clamped == Max(3, call'.input)
        IN  IF clamped = m_segmentCount
            THEN call'.ret = FALSE /\ UNCHANGED virtualRing
            ELSE /\ call'.ret = TRUE
                 /\ m_segmentCount' = clamped
                 /\ m_segmentEndDist' = [i \in 1..clamped |-> Infinity]
       ]_vars

\* a setSegmentCount with the current count after an update that found an obstacle:
\* it returns false and a finite end distance is still stored
C19_Witness ==
    /\ call.op = "setSegmentCount"
    /\ call.ret = FALSE
    /\ \E i \in SegmentIndices : m_segmentEndDist[i] < Infinity

\* C20: in the ready state, for every query with f > 0 the length L of each segment
\* satisfies segment_start_dist[i] <= L <= max(segment_start_dist[i], f), whatever
\* the stored end distances are; ring and segments place their points at L.
C20_LengthBetweenStartAndFallback ==
    m_ready =>
        \A f \in {g \in FallbackRanges : g > 0} :
            LET points == ring(f)
                pairs == segments(f)
            IN  /\ Len(points) = m_segmentCount
                /\ Len(pairs) = m_segmentCount
                /\ \A i \in SegmentIndices :
                     LET L == segmentLength(i, f)
                     IN  /\ m_segmentStartDist[i] <= L
                         /\ L <= Max(m_segmentStartDist[i], f)
                         /\ points[i] = alongSegment(i, L)
                         /\ pairs[i].end = alongSegment(i, L)
                         /\ pairs[i].start = alongSegment(i, m_segmentStartDist[i])

\* a contour replaced after the last update: the end distance stored for a segment
\* lies inside the new contour
C20_Witness ==
    /\ m_ready
    /\ call.op = "setVehicleContour"
    /\ \E i \in SegmentIndices : m_segmentEndDist[i] < m_segmentStartDist[i]

\* C21: after setSegmentCount(n), segmentCount() is n for every n >= 3 and 3 for every
\* n < 3, whether the call returned true or false; and in every state the direction,
\* start-distance and end-distance arrays all have exactly segmentCount() entries.
C21_SegmentCountClamps ==
    [][ /\ call'.op = "setSegmentCount" =>
              /\ call'.input >= 3 => segmentCount' = call'.input
              /\ call'.input < 3 => segmentCount' = 3
        /\ Len(m_segmentDirections) = segmentCount
        /\ Len(m_segmentStartDist) = segmentCount
        /\ Len(m_segmentEndDist) = segmentCount
        /\ Len(m_segmentDirections') = segmentCount'
        /\ Len(m_segmentStartDist') = segmentCount'
        /\ Len(m_segmentEndDist') = segmentCount' ]_vars

\* a count below the minimum was asked for on a ring of another count, and the ring
\* now has three segments
C21_Witness ==
    /\ call.op = "setSegmentCount"
    /\ call.input < 3
    /\ call.ret
    /\ segmentCount = 3
    /\ Len(m_segmentEndDist) = 3


\* the fields the mapping copies from a raw slot, as an emitted detection holds them
MappedFields(det) ==
    [range_m |-> det.range_m, rangeRate_ms |-> det.rangeRate_ms,
     rangeRateRaw_ms |-> det.rangeRateRaw_ms, azimuthRaw |-> det.azimuthRaw,
     azimuth |-> det.azimuth, amplitude_dBsm |-> det.amplitude_dBsm,
     longitudinalOffset_m |-> det.longitudinalOffset_m,
     lateralOffset_m |-> det.lateralOffset_m, motionStatus |-> det.motionStatus,
     flags |-> det.flags]

\* the same fields as raw slot r gives them
FieldsOfSlot(r) == MappedFields(MapReturn(DefaultEnhancedDetection, r))

\* C22: on an initialized pipeline, whatever the input and whatever the containers
\* held before, processCornerDetections leaves exactly one enhanced detection per raw
\* slot in its container (kCornerReturnCount of them), detection i built from raw slot
\* i; processFrontDetections leaves kCornerReturnCount short and kCornerReturnCount
\* long detections, short[i] built from raw slot i and long[i] from raw slot
\* kCornerReturnCount + i: every raw slot is emitted once, none is dropped or emitted
\* twice.
C22_OneDetectionPerRawSlot ==
    [][ Processed(call')
            => /\ Len(call'.input.returns) =
                     (IF call'.op = "processCornerDetections" THEN kCornerReturnCount
                      ELSE kFrontReturnCount)
               /\ Len(output'.detections) = kCornerReturnCount
               /\ \A i \in 1..kCornerReturnCount :
                     MappedFields(output'.detections[i]) = FieldsOfSlot(call'.input.returns[i])
               /\ call'.op = "processCornerDetections" => outputLong' = outputLong
               /\ call'.op = "processFrontDetections"
                     => /\ Len(outputLong'.detections) = kCornerReturnCount
                        /\ \A i \in 1..kCornerReturnCount :
                              MappedFields(outputLong'.detections[i]) =
                                  FieldsOfSlot(call'.input.returns[kCornerReturnCount + i])
       ]_vars

\* a front frame whose short half differs from its long half in every slot, emitted
\* by an initialized pipeline after at least one other call
C22_Witness ==
    /\ call.op = "processFrontDetections"
    /\ call.live # <<>>
    /\ ncalls >= 3
    /\ \A i \in 1..kCornerReturnCount :
          /\ call.input.returns[i] # call.input.returns[kCornerReturnCount + i]
          /\ MappedFields(output.detections[i]) # MappedFields(outputLong.detections[i])
    /\ Len(output.detections) = kCornerReturnCount
    /\ Len(outputLong.detections) = kCornerReturnCount


(***************************************************************************)
(* The playback.                                                           *)
(***************************************************************************)
StreamIndices == 1..Len(impl_streams)

\* the calls the playback made to its pipeline for the records of stream i, in order
CallsFor(calls, i) == SelectSeq(calls, LAMBDA c : c.op # "initialize" /\ c.stream = i)

\* so far the timestamps of every stream's records are non-decreasing: those
\* delivered, in order, and after them the pending one
NonDecreasingSoFar(calls, streams) ==
    \A i \in 1..Len(streams) :
       LET own == CallsFor(calls, i)
       IN  /\ \A k \in 1..(Len(own) - 1) : own[k].timestamp_us <= own[k + 1].timestamp_us
           /\ (streams[i].hasPending /\ own # <<>>)
                 => own[Len(own)].timestamp_us <= streams[i].timestampUs

\* C23: a successful readNextFrame first gives every stream that is not exhausted a
\* pending record (a record pending before the call stays the same record); the frame
\* it returns carries the minimum timestamp over the pending records and is made of
\* exactly the pending records with that timestamp, one per stream, in stream order;
\* these are delivered and the others stay pending.  Hence, as long as the timestamps
\* of each stream's own records are non-decreasing, the timestamp of a frame is not
\* below that of the frame returned by the call before.
C23_FrameIsEarliestPending ==
    [][ (call'.op = "readNextFrame" /\ call'.ret)
            => LET merged == frame'.merged
                   mergedStreams == {merged[k].stream : k \in 1..Len(merged)}
                   stillPending == {i \in StreamIndices : impl_streams'[i].hasPending}
               IN  /\ merged # <<>>
                   /\ \A k \in 1..(Len(merged) - 1) : merged[k].stream < merged[k + 1].stream
                   /\ mergedStreams \subseteq StreamIndices
                   /\ mergedStreams \cap stillPending = {}
                   /\ \A i \in StreamIndices :
                         \/ i \in mergedStreams
                         \/ i \in stillPending
                         \/ impl_streams'[i].exhausted
                   /\ \A k \in 1..Len(merged) :
                         /\ merged[k].timestamp_us = frame'.timestampUs
                         /\ merged[k].line = impl_streams'[merged[k].stream].position
                         /\ merged[k].timestamp_us = impl_streams'[merged[k].stream].timestampUs
                   /\ \A i \in stillPending : impl_streams'[i].timestampUs > frame'.timestampUs
                   /\ \A i \in StreamIndices :
                         impl_streams[i].hasPending
                             => /\ i \in mergedStreams \cup stillPending
                                /\ impl_streams'[i].position = impl_streams[i].position
                                /\ impl_streams'[i].timestampUs = impl_streams[i].timestampUs
                   /\ impl_pipeline' = impl_pipeline \o merged
                   /\ (call.op = "readNextFrame" /\ call.ret
                          /\ NonDecreasingSoFar(impl_pipeline', impl_streams'))
                         => frame'.timestampUs >= frame.timestampUs
      ]_vars

\* the second frame of a playback: one stream's record, later than the first frame,
\* while the record of the other stream stays pending
C23_Witness ==
    /\ call.op = "readNextFrame"
    /\ call.ret
    /\ Len(frame.merged) = 1
    /\ Len(impl_pipeline) >= 3
    /\ \E i \in StreamIndices : impl_streams[i].hasPending
    /\ NonDecreasingSoFar(impl_pipeline, impl_streams)


(***************************************************************************)
(* The pipeline, continued.                                                *)
(***************************************************************************)
\* the containers a detection call wrote, with the sensor of each
ContainersOf(c, out, outLong) ==
    IF c.op = "processCornerDetections" THEN <<[sensor |-> c.sensor, detections |-> out.detections]>>
    ELSE <<[sensor |-> FrontShort, detections |-> out.detections],
           [sensor |-> FrontLong, detections |-> outLong.detections]>>

\* det is what classification against the motion state `motion` and association
\* against the tracks `tracks` make of it
ClassifiedAgainst(det, sensor, motion, tracks, dt) ==
    LET calibration == m_parameters.radarCalibrations[sensor]
        classified == ClassifyOne(det, calibration, motion)
        boxes == [t \in 1..Len(tracks) |-> PredictedBox(tracks[t], dt)]
    IN  /\ det.isStationary = classified.isStationary
        /\ det.stationaryProbability = classified.stationaryProbability
        /\ det.fusedTrackIndex + 1 =
              (IF tracks # <<>> /\ HasValidMask(det.flags)
               THEN BestIndex(det, calibration, motion, tracks, boxes) ELSE 0)

\* C24: with no external motion state, every detection of a frame is classified and
\* associated against the motion state as it was before the frame; the estimate made
\* from the frame is in the motion state only after the call, where the next frame
\* finds it.  Before the first detection frame that motion state is the default one:
\* zero velocity and zero yaw rate.
C24_FrameClassifiedAgainstEarlierState ==
    [][ (Processed(call') /\ ~m_hasExternalMotionState /\ call'.sensor \in SensorIndices)
            => /\ \A k \in 1..Len(ContainersOf(call', output', outputLong')) :
                     LET container == ContainersOf(call', output', outputLong')[k]
                     IN  \A i \in 1..Len(container.detections) :
                            ClassifiedAgainst(container.detections[i], container.sensor,
                                              m_motionState, m_tracks,
                                              Max(0, call'.timestamp_us - m_tracksTimestamp_us))
               /\ call'.estimated
                     => /\ m_motionState'.vLon_mps = m_odometry'.vLon_mps
                        /\ m_motionState'.vLat_mps = m_odometry'.vLat_mps
                        /\ m_motionState'.yawRate_rps = m_odometry'.yawRate_rps
               /\ ~call'.estimated => m_motionState' = m_motionState
               /\ (\A s \in SensorIndices : ~m_sensorStates[s].initialized)
                     => /\ m_motionState.vLon_mps = 0
                        /\ m_motionState.vLat_mps = 0
                        /\ m_motionState.yawRate_rps = 0
      ]_vars

\* a frame after a frame that estimated a velocity: a detection of it is classified
\* otherwise than it would be against zero velocity
C24_Witness ==
    /\ Processed(call)
    /\ ~m_hasExternalMotionState
    /\ call.sensor \in SensorIndices
    /\ \E i \in 1..Len(output.detections) :
          output.detections[i].isStationary #
              ClassifyOne(output.detections[i], m_parameters.radarCalibrations[call.sensor],
                          DefaultMotionState).isStationary


\* C27: for every frame timestamp t, hardware delay d and snapshot timestamp s in the
\* range of std::uint64_t, the observation time is t - d when t > d and 0 otherwise,
\* and the prediction interval is observation time - s when the observation time is
\* above s and 0 otherwise, as differences of integers: neither wraps around, so the
\* observation time is at most t and the interval at most the observation time, and a
\* snapshot at or after the observation time is predicted by 0.
C27_TimeDifferencesSaturate ==
    call.op = "alignFrame"
        => LET t == call.timestamp_us
               d == call.input.delayUs
               s == call.input.tracksTimestamp_us
               observationTime == call.input.observationTime
               dt == call.input.dt
           IN  /\ t > d => observationTime = t - d
               /\ t <= d => observationTime = 0
               /\ observationTime > s => dt = observationTime - s
               /\ observationTime <= s => dt = 0
               /\ 0 <= observationTime /\ observationTime <= t
               /\ 0 <= dt /\ dt <= observationTime

\* a frame whose hardware delay exceeds its timestamp, with a snapshot newer than the
\* observation time
C27_Witness ==
    /\ call.op = "alignFrame"
    /\ call.timestamp_us < call.input.delayUs
    /\ call.input.tracksTimestamp_us > call.input.observationTime
    /\ call.input.observationTime = 0
    /\ call.input.dt = 0


\* the distances from the centre of the points of D that lie in the wedge of segment i
\* beyond the start of the segment (a point at the centre has no angle)
DetectionDistances(D, i) ==
    {d \in {length(<<D[k][1] - m_vehicleCenter[1], D[k][2] - m_vehicleCenter[2]>>) :
                k \in {j \in 1..Len(D) :
                          /\ <<D[j][1], D[j][2]>> # m_vehicleCenter
                          /\ segmentIndex(<<D[j][1] - m_vehicleCenter[1],
                                            D[j][2] - m_vehicleCenter[2]>>, m_segmentCount) = i}} :
        d > m_segmentStartDist[i]}

\* the distances along direction i to the footprints of F that the ray meets beyond
\* the start of the segment
FootprintDistances(F, i) ==
    {d \in {polygonRayDistance(m_vehicleCenter, m_segmentDirections[i], F[k]) :
                k \in 1..Len(F)} :
        d < Infinity /\ d > m_segmentStartDist[i]}

\* C25: after update(D, F) in the ready state the end distance of every segment i is
\* the least of the distances of the detections of D in its wedge and of the ray hits
\* on the footprints of F that lie beyond the start distance of the segment, and
\* infinite when there is none, whatever the end distances were before; after update
\* in the not-ready state every end distance is infinite.
C25_EndDistancesAreNearestOfFrame ==
    [][call'.op = "RadarVirtualSensorMapping::update"
        => LET D == call'.input.detections
               F == call'.input.trackFootprints
           IN  /\ Len(m_segmentEndDist') = m_segmentCount
               /\ \A i \in 1..m_segmentCount :
                      LET candidates == DetectionDistances(D, i) \cup FootprintDistances(F, i)
                      IN  IF ~m_ready \/ candidates = {}
                          THEN m_segmentEndDist'[i] = Infinity
                          ELSE /\ m_segmentEndDist'[i] \in candidates
                               /\ \A d \in candidates : m_segmentEndDist'[i] <= d]_vars

\* an update in the ready state that leaves a segment open which the frame before had
\* closed, and closes another one
C25_Witness ==
    /\ call.op = "RadarVirtualSensorMapping::update"
    /\ m_ready
    /\ call.input.detections = <<>>
    /\ call.input.trackFootprints # <<>>
    /\ \E i \in 1..m_segmentCount : m_segmentEndDist[i] < Infinity
    /\ \E i \in 1..m_segmentCount :
           /\ m_segmentEndDist[i] = Infinity
           /\ DetectionDistances(<< <<15, 5>> >>, i) # {}


\* the detections a detection call wrote, in the order they were associated
EmittedInOrder(c, out, outLong) ==
    IF c.op = "processCornerDetections" THEN out.detections
    ELSE out.detections \o outLong.detections

\* the vote a detection casts on its track, in thousandths
VoteOfDetection(det) ==
    IF det.isStationary # 0 THEN -det.stationaryProbability
    ELSE ProbOne - det.stationaryProbability

\* the votes of the track at index i (from 0) after the detections dets[k..] that
\* carry its index have voted in turn, starting from `votes`, and whether each of them
\* has is_moveable = (votes > 0) as the votes stand after its own vote
RECURSIVE VotesReplayed(_, _, _, _)
VotesReplayed(k, dets, i, votes) ==
    IF k > Len(dets) THEN [agrees |-> TRUE, votes |-> votes]
    ELSE IF dets[k].fusedTrackIndex # i THEN VotesReplayed(k + 1, dets, i, votes)
    ELSE LET sum == votes + VoteOfDetection(dets[k])
             after == IF sum > VotesLimit THEN VotesLimit
                      ELSE IF sum < -VotesLimit THEN -VotesLimit ELSE sum
             rest == VotesReplayed(k + 1, dets, i, after)
         IN  [agrees |-> rest.agrees /\ dets[k].isMoveable = (IF after > 0 THEN 1 ELSE 0),
              votes |-> rest.votes]

\* every track flagged moveable has no votes, every other has votes within the limits
VotesWithinLimits(tracks) ==
    \A i \in 1..Len(tracks) :
        IF tracks[i].isMoveable THEN tracks[i].movingVotes = 0
        ELSE -VotesLimit <= tracks[i].movingVotes /\ tracks[i].movingVotes <= VotesLimit

\* C26: a track flagged moveable in the track frame keeps moving_votes = 0 as long as
\* the snapshot lives, and every detection associated with it gets is_moveable = 1 and
\* is_static = 0; the moving_votes of every other track stay within [-100, 100], and a
\* detection associated with such a track gets is_moveable = 1 exactly if the votes,
\* after its own vote has been added and clamped, are above zero.
C26_MoveableTracksPassThroughOthersVote ==
    [][ /\ VotesWithinLimits(m_tracks')
        /\ Processed(call')
             => /\ Len(m_tracks') = Len(m_tracks)
                /\ \A i \in 1..Len(m_tracks) :
                      LET dets == EmittedInOrder(call', output', outputLong')
                      IN  IF m_tracks[i].isMoveable
                          THEN /\ m_tracks'[i] = m_tracks[i]
                               /\ \A k \in 1..Len(dets) :
                                     dets[k].fusedTrackIndex = i - 1
                                        => dets[k].isMoveable = 1 /\ dets[k].isStatic = 0
                          ELSE LET replayed ==
                                       VotesReplayed(1, dets, i - 1, m_tracks[i].movingVotes)
                               IN  /\ replayed.agrees
                                   /\ m_tracks'[i].movingVotes = replayed.votes ]_vars

\* a frame with a detection associated with a not-moveable track whose votes its vote
\* took to the upper limit
C26_Witness ==
    /\ Processed(call)
    /\ \E i \in 1..Len(m_tracks) :
           /\ ~m_tracks[i].isMoveable
           /\ m_tracks[i].movingVotes = VotesLimit
           /\ \E d \in Emitted(call, output, outputLong) :
                  /\ d.fusedTrackIndex = i - 1
                  /\ VoteOfDetection(d) > 0
                  /\ d.isMoveable = 1

\* a frame with a stationary detection associated with a track flagged moveable
C26_WitnessMoveable ==
    /\ Processed(call)
    /\ \E i \in 1..Len(m_tracks) :
           /\ m_tracks[i].isMoveable
           /\ \E d \in Emitted(call, output, outputLong) :
                  /\ d.fusedTrackIndex = i - 1
                  /\ d.isStationary # 0
                  /\ d.isMoveable = 1

(***************************************************************************)
(* RadarPlayback: delivery of the records of the input files.              *)
(***************************************************************************)
\* the lines of the file of stream i that the parser accepts, by line number, in file
\* order
RecordsOf(i) ==
    LET lines == settings_inputFiles[impl_streams[i].input].lines
    IN  SelectIndices(Len(lines), LAMBDA p : lines[p].kind = "record")

\* the lines of stream i delivered to the pipeline so far, by line number, in the
\* order of delivery
DeliveredOf(i) ==
    LET own == CallsFor(impl_pipeline, i)
    IN  [k \in 1..Len(own) |-> own[k].line]

\* C28: the lines of a stream delivered to the pipeline are at every moment the first
\* of the lines of its file that parse, each once and in file order, the lines that
\* do not parse being left out; and when the playback reports the end of the input,
\* every line that parses has been delivered.
C28_EveryParsedLineDeliveredOnce ==
    impl_initialized
        => \A i \in StreamIndices :
              /\ Len(DeliveredOf(i)) <= Len(RecordsOf(i))
              /\ \A k \in 1..Len(DeliveredOf(i)) : DeliveredOf(i)[k] = RecordsOf(i)[k]
              /\ (call.op = "readNextFrame" /\ ~call.ret) => DeliveredOf(i) = RecordsOf(i)

\* C29: on an initialized playback readNextFrame returns false only when no stream
\* holds a record that was parsed and not delivered and every stream has reached the
\* end of its file, and the call after one that returned false returns false.
C29_FalseOnlyAfterAllDelivered ==
    [][ (impl_initialized /\ call'.op = "readNextFrame")
            => /\ ~call'.ret
                  => \A i \in StreamIndices :
                        ~impl_streams'[i].hasPending /\ impl_streams'[i].exhausted
               /\ (call.op = "readNextFrame" /\ ~call.ret) => ~call'.ret ]_vars

\* the end of the input reported while a stream holds an undelivered record
PlaybackEndsWithPendingRecord ==
    /\ impl_initialized
    /\ call.op = "readNextFrame"
    /\ ~call.ret
    /\ \E i \in StreamIndices : impl_streams[i].hasPending


\* C30: after a successful readNextScan, lastFrameSources() lists the names of the
\* files whose frames were merged into the scan, one name per merged frame in the
\* order of merging, whether or not some configured file was missing when the reader
\* was constructed.
C30_SourcesAreTheMergedFiles ==
    (call.op = "readNextScan" /\ call.ret)
        => /\ destination # <<>>
           /\ m_lastFrameSources = [k \in 1..Len(destination) |-> destination[k].source]

\* a scan merged from the second configured file while the first one is missing
ScanFromSecondFileOnly ==
    /\ call.op = "readNextScan"
    /\ call.ret
    /\ ~m_dataDirectory[1].exists
    /\ destination # <<>>
    /\ \A k \in 1..Len(destination) : destination[k].source = m_files[2]

====
